---- MODULE Spec2Model ----
(***************************************************************************)
(* A model of the billdozer agent CLI: the tool registry                   *)
(* (internal/tools/registry.go, here src/unnamed/part_007), the tool types *)
(* (src/unnamed/part_008), the tools' Execute methods and main.            *)
(*                                                                         *)
(* Go slices are modelled with an explicit heap of backing arrays, so that *)
(* "returns a copy" is a statement the model can refute: a slice is a      *)
(* header [arr, len, cap] pointing into heap[arr].                         *)
(***************************************************************************)
EXTENDS Integers, Sequences, FiniteSets, TLC

\* ------------------------------------------------------------------ bounds
\* Register is refused by the model once the registry holds MaxLen definitions.
MaxLen == 2
\* Backing arrays the heap can hold at once (registry, caller, one in flight).
NumArr == 3

\* ------------------------------------------------------------ tool types
\* A nil func value / nil pointer.
Nil == "nil"

\* The zero value of ToolDefinition (what make([]ToolDefinition, n) holds).
ZeroDef == [Name |-> "", Description |-> "", InputSchema |-> "", Function |-> Nil]

\* The Tool implementations that register themselves from init().
Tools == {"read_file", "edit_file"}

\* tool.Definition(): the literal each tool returns; Function is left unset.
Definition(tool) ==
  IF tool = "read_file"
  THEN [Name |-> "read_file", Description |-> "Read the contents of a given relative file path.",
        InputSchema |-> "GenerateSchema[ReadFileInput]", Function |-> Nil]
  ELSE [Name |-> "edit_file", Description |-> "Edit an existing text file by replacing text.",
        InputSchema |-> "GenerateSchema[EditFileInput]", Function |-> Nil]

\* The method value tool.Execute.
Execute(tool) ==
  IF tool = "read_file" THEN "ReadFileTool.Execute" ELSE "EditFileTool.Execute"

\* Mutant of ToolAdapter: the handler is not bound to the definition.
ToolAdapterUnbound(tool) == Definition(tool)

\* ToolAdapter: def := tool.Definition(); def.Function = tool.Execute.
ToolAdapter(tool) == [Definition(tool) EXCEPT !.Function = Execute(tool)]

\* Definitions a caller hands to Register directly.  Register takes any
\* ToolDefinition value: one that reuses a registered name, and the zero value.
DirectDefs ==
  { [Name |-> "read_file", Description |-> "Another read_file.",
     InputSchema |-> "GenerateSchema[OtherInput]", Function |-> "OtherTool.Execute"],
    ZeroDef }

\* Names a caller looks up.
LookupNames == {"read_file", "edit_file", "list_files"}

\* ------------------------------------------------------------------ state
\* The registry as one caller at a time sees it.
VARIABLES
  heap,    \* heap[a]: the backing array a, a sequence of cap(a) definitions
  tools,   \* Registry.tools: a slice header [arr, len, cap]; arr = 0 is nil
  held,    \* what the caller holds from its last GetAll / GetByName
  ret,     \* the value the last GetAll / GetByName returned, at its return
  regLog   \* history: the definitions registered since the last Clear

\* The registry under concurrent initializers and readers.
VARIABLES
  ctools,     \* Registry.tools, as the sequence of its elements
  rwWriter,   \* RWMutex: the writer that holds or is acquiring the lock, 0 if none
  rwReaders,  \* RWMutex: the readers holding the read lock
  wpc,        \* each initializer's position in Register
  wlocal,     \* the r.tools value an initializer's append has read
  rpc,        \* each reader's position in GetAll / GetByName
  rop,        \* the call a reader is in: [op, name]
  rlen,       \* len(r.tools) as read by make in GetAll
  rres        \* what the reader's last call returned: [found, val, all]

\* The conversation engine, the tools it runs and main.
VARIABLES
  engState,   \* AwaitingUserInput, AwaitingModelResponse, ExecutingTools, Terminated
  messages,   \* the conversation: a sequence of [role, blocks]
  results,    \* the tool-result blocks collected for the current assistant turn
  sent,       \* history: the conversation as handed to the provider at the last model call
  execLog,    \* history: one entry per dispatched tool call, in dispatch order
  files,      \* the filesystem: path -> content, or NoFile
  toolTurns,  \* assistant turns with tool calls so far
  inputs,     \* operator lines read so far
  nextId,     \* the next correlation identifier the provider hands out
  runErr,     \* what Run returned: Nil or the fatal error
  mainPc,     \* main: "running" or "exited"
  printed,    \* how many times main printed the error
  exitStatus  \* the process's exit status once main has exited

\* The file tools called one at a time on a filesystem.
VARIABLES
  disk,      \* the filesystem: path -> content, NoFile or Dir
  lastCall   \* history: the last tool call, its inputs, the filesystem before it, its outcome

\* execute_command, its configuration file and its subprocess.
VARIABLES
  cfgFile,   \* .agent-commands.yml as LoadCommandsConfig would load it now
  cmd,       \* the execute_command call in progress, if any
  proc,      \* the subprocess of the current or last call
  cmdRet     \* history: what the last execute_command call returned

\* The input schemas the tools advertise.
VARIABLES
  advertised  \* input struct -> the schema GenerateSchema returned for it, or NoSchema

\* read_file on one file.
VARIABLES
  readFile,  \* the content of the file read_file is asked for, Unwritten before it is saved
  readCall   \* history: the read_file call made, its input and what it returned

\* The file-creating tools called by concurrent callers on a directory tree.
VARIABLES
  tree,       \* the filesystem: entry -> content, NoFile or Dir
  treeStart,  \* history: the filesystem the callers started from, Unprepared before
  callers     \* each caller's call: position, tool, payload, what it made, its result

regVars == <<heap, tools, held, ret, regLog>>
concVars == <<ctools, rwWriter, rwReaders, wpc, wlocal, rpc, rop, rlen, rres>>
engVars == <<engState, messages, results, sent, execLog, files, toolTurns, inputs, nextId,
             runErr, mainPc, printed, exitStatus>>
fileVars == <<disk, lastCall>>
cmdVars == <<cfgFile, cmd, proc, cmdRet>>
schemaVars == <<advertised>>
readVars == <<readFile, readCall>>
treeVars == <<tree, treeStart, callers>>
vars == <<regVars, concVars, engVars, fileVars, cmdVars, schemaVars, readVars, treeVars>>

\* What the operations of one part leave alone.
otherThanReg == <<concVars, engVars, fileVars, cmdVars, schemaVars, readVars, treeVars>>
otherThanConc == <<regVars, engVars, fileVars, cmdVars, schemaVars, readVars, treeVars>>
otherThanEng == <<regVars, concVars, fileVars, cmdVars, schemaVars, readVars, treeVars>>
otherThanFile == <<regVars, concVars, engVars, cmdVars, schemaVars, readVars, treeVars>>
otherThanCmd == <<regVars, concVars, engVars, fileVars, schemaVars, readVars, treeVars>>
otherThanSchema == <<regVars, concVars, engVars, fileVars, cmdVars, readVars, treeVars>>
otherThanRead == <<regVars, concVars, engVars, fileVars, cmdVars, schemaVars, treeVars>>
otherThanTree == <<regVars, concVars, engVars, fileVars, cmdVars, schemaVars, readVars>>

NilSlice == [arr |-> 0, len |-> 0, cap |-> 0]
\* kind "slice": elements heap[arr][1..len]; kind "ptr": the element heap[arr][idx].
\* dirty: the caller has written through it.
\* taken: history, the definitions the value held when it was returned.
NoHeld == [kind |-> "none", arr |-> 0, idx |-> 0, len |-> 0, dirty |-> FALSE, taken |-> <<>>]
\* afterWrite: the caller had written through the value it held when it called.
NoRet == [op |-> "none", name |-> "", found |-> FALSE, val |-> ZeroDef, all |-> <<>>,
          afterWrite |-> FALSE]

\* The definitions of the history, in registration order.
LogDefs == [i \in 1..Len(regLog) |-> regLog[i].def]

\* The elements of slice s in heap h.
Live(h, s) == IF s.len = 0 THEN <<>> ELSE SubSeq(h[s.arr], 1, s.len)

\* n zero values.
Zeros(n) == [i \in 1..n |-> ZeroDef]

\* A fresh array: the lowest one no root points to.
Alloc(roots) == CHOOSE a \in 1..NumArr : a \notin roots /\ \A b \in 1..NumArr : b \notin roots => a <= b

\* Garbage collection: an array no root points to is gone.
Collect(h, roots) == [a \in 1..NumArr |-> IF a \in roots THEN h[a] ELSE <<>>]

\* Capacity growth of append for a small slice.
GrowCap(c) == IF c = 0 THEN 1 ELSE 2 * c

\* append(s, x): in place when there is spare capacity, else into a new array.
AppendSlice(h, s, x, roots) ==
  IF s.len < s.cap
  THEN [heap |-> [h EXCEPT ![s.arr][s.len + 1] = x],
        hdr  |-> [s EXCEPT !.len = s.len + 1]]
  ELSE LET a == Alloc(roots)
           c == GrowCap(s.cap)
       IN [heap |-> [h EXCEPT ![a] = Live(h, s) \o <<x>> \o Zeros(c - s.len - 1)],
           hdr  |-> [arr |-> a, len |-> s.len + 1, cap |-> c]]

RegInit ==
  /\ heap = [a \in 1..NumArr |-> <<>>]
  /\ tools = NilSlice
  /\ held = NoHeld
  /\ ret = NoRet
  /\ regLog = <<>>

\* -------------------------------------------------------------- Registry
\* Register: r.tools = append(r.tools, tool), under the write lock.
RegisterDef(tool, via) ==
  /\ tools.len < MaxLen
  /\ LET r == AppendSlice(heap, tools, tool, {tools.arr, held.arr})
     IN /\ tools' = r.hdr
        /\ heap' = Collect(r.heap, {r.hdr.arr, held.arr})
  /\ regLog' = Append(regLog, [def |-> tool, via |-> via])
  /\ ret' = NoRet
  /\ UNCHANGED <<held, otherThanReg>>

Register == \E d \in DirectDefs : RegisterDef(d, "none")

\* RegisterTool: r.Register(ToolAdapter(tool)).
RegisterTool == \E t \in Tools : RegisterDef(ToolAdapter(t), t)

\* Mutant of GetAllResult: the registry's own slice is returned.
GetAllNoCopy(h, s, roots) == [heap |-> h, hdr |-> s]

\* GetAll's result: result := make([]ToolDefinition, len(r.tools)); copy(result, r.tools).
GetAllResult(h, s, roots) ==
  LET a == Alloc(roots)
  IN [heap |-> [h EXCEPT ![a] = Live(h, s)],
      hdr  |-> [arr |-> a, len |-> s.len, cap |-> s.len]]

\* Mutant of GetAll: the caller is handed r.tools itself.
GetAllAliasing ==
  /\ held' = [kind |-> "slice", arr |-> tools.arr, idx |-> 0, len |-> tools.len,
              dirty |-> FALSE, taken |-> Live(heap, tools)]
  /\ heap' = Collect(heap, {tools.arr})
  /\ ret' = [NoRet EXCEPT !.op = "GetAll", !.all = Live(heap, tools),
                          !.afterWrite = held.dirty]
  /\ UNCHANGED <<tools, regLog, otherThanReg>>

GetAll ==
  LET r == GetAllResult(heap, tools, {tools.arr, held.arr})
  IN /\ held' = [kind |-> "slice", arr |-> r.hdr.arr, idx |-> 0, len |-> r.hdr.len,
                  dirty |-> FALSE, taken |-> Live(r.heap, r.hdr)]
     /\ heap' = Collect(r.heap, {tools.arr, r.hdr.arr})
     /\ ret' = [NoRet EXCEPT !.op = "GetAll", !.all = Live(r.heap, r.hdr),
                             !.afterWrite = held.dirty]
     /\ UNCHANGED <<tools, regLog, otherThanReg>>

\* The index GetByName's loop stops at: the first element named name, 0 if none.
FindByName(h, s, name) ==
  LET hits == {i \in 1..s.len : h[s.arr][i].Name = name}
  IN IF hits = {} THEN 0 ELSE CHOOSE i \in hits : \A j \in hits : i <= j

\* Mutant of CopyOut: a pointer to the registry's own element.
PointInto(h, s, i, roots) == [heap |-> h, arr |-> s.arr, idx |-> i]

\* toolCopy := tool; return &toolCopy: a pointer to a fresh copy of element i.
CopyOut(h, s, i, roots) ==
  LET a == Alloc(roots)
  IN [heap |-> [h EXCEPT ![a] = <<h[s.arr][i]>>], arr |-> a, idx |-> 1]

GetByName ==
  \E name \in LookupNames :
    LET i == FindByName(heap, tools, name)
    IN IF i = 0
       THEN /\ held' = NoHeld
            /\ heap' = Collect(heap, {tools.arr})
            /\ ret' = [NoRet EXCEPT !.op = "GetByName", !.name = name,
                                    !.afterWrite = held.dirty]
            /\ UNCHANGED <<tools, regLog, otherThanReg>>
       ELSE LET r == CopyOut(heap, tools, i, {tools.arr, held.arr})
            IN /\ held' = [kind |-> "ptr", arr |-> r.arr, idx |-> r.idx, len |-> 1,
                            dirty |-> FALSE, taken |-> <<r.heap[r.arr][r.idx]>>]
               /\ heap' = Collect(r.heap, {tools.arr, r.arr})
               /\ ret' = [NoRet EXCEPT !.op = "GetByName", !.name = name, !.found = TRUE,
                                       !.val = r.heap[r.arr][r.idx],
                                       !.afterWrite = held.dirty]
               /\ UNCHANGED <<tools, regLog, otherThanReg>>

\* Mutant of ClearSlice: the slice is left as it is.
ClearKeep(s) == s

\* r.tools[:0]: same array, same capacity, length 0.
ClearSlice(s) == [s EXCEPT !.len = 0]

Clear ==
  /\ tools' = ClearSlice(tools)
  /\ regLog' = <<>>
  /\ ret' = NoRet
  /\ UNCHANGED <<heap, held, otherThanReg>>

\* ---------------------------------------------------------------- callers
\* What a caller writes into a value it was handed.
Scribble == [Name |-> "mutated", Description |-> "mutated", InputSchema |-> "mutated",
             Function |-> "Caller.Func"]

\* result[0] = x on a slice GetAll returned.
CallerOverwrite ==
  /\ held.kind = "slice" /\ held.len >= 1
  /\ heap' = [heap EXCEPT ![held.arr][1] = Scribble]
  /\ held' = [held EXCEPT !.dirty = TRUE]
  /\ UNCHANGED <<tools, ret, regLog, otherThanReg>>

\* result[0], result[1] = result[1], result[0].
CallerReorder ==
  /\ held.kind = "slice" /\ held.len >= 2
  /\ heap[held.arr][1] # heap[held.arr][2]
  /\ heap' = [heap EXCEPT ![held.arr][1] = heap[held.arr][2],
                          ![held.arr][2] = heap[held.arr][1]]
  /\ held' = [held EXCEPT !.dirty = TRUE]
  /\ UNCHANGED <<tools, ret, regLog, otherThanReg>>

\* *def = x (every field reassigned) on a *ToolDefinition GetByName returned.
CallerReassign ==
  /\ held.kind = "ptr"
  /\ heap[held.arr][held.idx] # Scribble
  /\ heap' = [heap EXCEPT ![held.arr][held.idx] = Scribble]
  /\ held' = [held EXCEPT !.dirty = TRUE]
  /\ UNCHANGED <<tools, ret, regLog, otherThanReg>>

RegNext ==
  \/ Register
  \/ RegisterTool
  \/ GetAll
  \/ GetByName
  \/ Clear
  \/ CallerOverwrite
  \/ CallerReorder
  \/ CallerReassign

\* ------------------------------------------------------- registry claims
DistinctNames == \A i, j \in 1..Len(regLog) : i # j => regLog[i].def.Name # regLog[j].def.Name

\* C1: when the definitions registered since the last Clear have pairwise
\* distinct names, GetByName(n) for a registered name n returns a definition
\* equal in every field to the one registered under n, and for a definition
\* registered by RegisterTool(t) the handler returned is t.Execute.
C1_LookupRoundTrip ==
  (ret.op = "GetByName" /\ DistinctNames) =>
    \A i \in 1..Len(regLog) :
      regLog[i].def.Name = ret.name =>
        /\ ret.found
        /\ ret.val = regLog[i].def
        /\ regLog[i].via # "none" =>
             /\ ret.val.Function = Execute(regLog[i].via)
             /\ ret.val.Name = Definition(regLog[i].via).Name
             /\ ret.val.Description = Definition(regLog[i].via).Description
             /\ ret.val.InputSchema = Definition(regLog[i].via).InputSchema

\* C1 witness: two tools with distinct names are registered and the second
\* one, registered through RegisterTool, has just been looked up.
C1_Witness ==
  /\ ret.op = "GetByName" /\ ret.found
  /\ Len(regLog) = 2 /\ DistinctNames
  /\ regLog[2].def.Name = ret.name
  /\ regLog[2].via # "none"

\* C2 (as claimed): whatever was registered, GetAll holds at most one
\* definition per name, and it is the one GetByName returns for that name.
C2_OneDefinitionPerName ==
  ret.op = "GetAll" =>
    \A i, j \in 1..Len(ret.all) : ret.all[i].Name = ret.all[j].Name => i = j

\* C8: GetAll returns the definitions registered since the last Clear in
\* registration order, and GetByName one of them, whatever callers have
\* written through the slices and pointers earlier calls handed out.
C8_ReturnsAreCopies ==
  /\ ret.op = "GetAll" => ret.all = LogDefs
  /\ (ret.op = "GetByName" /\ ret.found) =>
       \E i \in 1..Len(regLog) :
         /\ ret.val = regLog[i].def
         /\ \A j \in 1..(i - 1) : regLog[j].def.Name # ret.name

\* C8 witness: a caller wrote through the slice it held, called GetAll again
\* and got the two registered definitions.
C8_Witness ==
  /\ ret.op = "GetAll" /\ ret.afterWrite
  /\ Len(ret.all) >= 2

\* C30: a snapshot returned by GetAll is unaffected by every later registry
\* operation: as long as the caller has not written to it, the slice holds
\* exactly the definitions, in order, it held when GetAll returned it,
\* whatever Register and Clear calls came after (Clear truncates in place
\* and later Registers write into the same backing array).
C30_SnapshotUnaffectedByRegistry ==
  (held.kind = "slice" /\ ~held.dirty) =>
    /\ Live(heap, held) = held.taken
    /\ held.len = Len(held.taken)

\* C30 witness: a snapshot of two definitions is held, the registry has
\* since been cleared and a different definition registered into the same
\* backing array, and the snapshot still holds the two definitions.
C30_Witness ==
  /\ held.kind = "slice" /\ ~held.dirty /\ Len(held.taken) = 2
  /\ Live(heap, held) = held.taken
  /\ tools.len = 1 /\ tools.cap = 2 /\ Len(regLog) = 1
  /\ heap[tools.arr][1] # held.taken[1]
  /\ heap[tools.arr][2] = held.taken[2]

\* C9: GetByName(n) returns nil exactly when no definition named n has been
\* registered since the last Clear; otherwise the definition returned is
\* named n.
C9_NotFoundIffAbsent ==
  ret.op = "GetByName" =>
    /\ ~ret.found <=> (\A i \in 1..Len(regLog) : regLog[i].def.Name # ret.name)
    /\ ret.found => ret.val.Name = ret.name

\* C9 witness: after a Clear, a name that is still in the backing array
\* (beyond the slice's length) is looked up and not found.
C9_Witness ==
  /\ ret.op = "GetByName" /\ ~ret.found
  /\ regLog = <<>> /\ tools.len = 0 /\ tools.cap > 0
  /\ heap[tools.arr][1].Name = ret.name

\* C10 (as claimed): every stored definition has a non-empty name and a
\* non-nil handler.
C10_StoredDefinitionsValid ==
  \A i \in 1..tools.len :
    /\ heap[tools.arr][i].Name # ""
    /\ heap[tools.arr][i].Function # Nil

\* ----------------------------------------------- concurrent registration
\* Initializer threads, each registering one tool family, and reader threads.
NumWriters == 2
NumReaders == 2
Writers == 1..NumWriters
Readers == 1..NumReaders

\* The tool names of the repository's tool families.
FamilyNames == <<"read_file", "edit_file", "list_files", "create_file", "write_file",
                 "delete_file", "glob_search", "execute_command">>

\* The definition initializer w registers.
FamilyDef(w) == [Name |-> FamilyNames[w], Description |-> FamilyNames[w],
                 InputSchema |-> FamilyNames[w], Function |-> FamilyNames[w]]

NoCall == [op |-> "none", name |-> ""]
NoResult == [found |-> FALSE, val |-> ZeroDef, all |-> <<>>]

ConcInit ==
  /\ ctools = <<>>
  /\ rwWriter = 0
  /\ rwReaders = {}
  /\ wpc = [w \in Writers |-> "idle"]
  /\ wlocal = [w \in Writers |-> <<>>]
  /\ rpc = [r \in Readers |-> "idle"]
  /\ rop = [r \in Readers |-> NoCall]
  /\ rlen = [r \in Readers |-> 0]
  /\ rres = [r \in Readers |-> NoResult]

\* sync.RWMutex.Lock, first half: one writer at a time gets to announce itself.
WriterMayAnnounce == rwWriter = 0

\* Mutant of WriterMayEnter: the writer does not wait for the readers to leave.
WriterEntersAtOnce == TRUE

\* sync.RWMutex.Lock, second half: the announced writer waits for active readers.
WriterMayEnter == rwReaders = {}

\* Mutant of ReaderMayEnter: a plain mutex, a reader also waits for readers.
ReaderEntersAlone == rwWriter = 0 /\ rwReaders = {}

\* sync.RWMutex.RLock: blocked while a writer holds or is acquiring the lock.
ReaderMayEnter == rwWriter = 0

\* Register, r.mutex.Lock() begins.
LockBegin(w) ==
  /\ wpc[w] = "idle"
  /\ WriterMayAnnounce
  /\ rwWriter' = w
  /\ wpc' = [wpc EXCEPT ![w] = "waiting"]
  /\ UNCHANGED <<ctools, rwReaders, wlocal, rpc, rop, rlen, rres, otherThanConc>>

\* Register, r.mutex.Lock() returns.
LockEnter(w) ==
  /\ wpc[w] = "waiting"
  /\ WriterMayEnter
  /\ wpc' = [wpc EXCEPT ![w] = "locked"]
  /\ UNCHANGED <<ctools, rwWriter, rwReaders, wlocal, rpc, rop, rlen, rres, otherThanConc>>

\* Register, append reads r.tools.
AppendLoad(w) ==
  /\ wpc[w] = "locked"
  /\ wlocal' = [wlocal EXCEPT ![w] = ctools]
  /\ wpc' = [wpc EXCEPT ![w] = "loaded"]
  /\ UNCHANGED <<ctools, rwWriter, rwReaders, rpc, rop, rlen, rres, otherThanConc>>

\* Register, r.tools = append(...) is stored.
AppendStore(w) ==
  /\ wpc[w] = "loaded"
  /\ ctools' = Append(wlocal[w], FamilyDef(w))
  /\ wpc' = [wpc EXCEPT ![w] = "stored"]
  /\ UNCHANGED <<rwWriter, rwReaders, wlocal, rpc, rop, rlen, rres, otherThanConc>>

\* Register, the deferred r.mutex.Unlock(); Register returns.
Unlock(w) ==
  /\ wpc[w] = "stored"
  /\ rwWriter' = IF rwWriter = w THEN 0 ELSE rwWriter
  /\ wpc' = [wpc EXCEPT ![w] = "done"]
  /\ wlocal' = [wlocal EXCEPT ![w] = <<>>]
  /\ UNCHANGED <<ctools, rwReaders, rpc, rop, rlen, rres, otherThanConc>>

\* GetAll / GetByName, r.mutex.RLock().
RLock(r) ==
  /\ rpc[r] \in {"idle", "returned"}
  /\ ReaderMayEnter
  /\ \E c \in {[op |-> "GetAll", name |-> ""]} \cup
             {[op |-> "GetByName", name |-> FamilyNames[w]] : w \in Writers} :
       rop' = [rop EXCEPT ![r] = c]
  /\ rwReaders' = rwReaders \cup {r}
  /\ rpc' = [rpc EXCEPT ![r] = "rlocked"]
  /\ rres' = [rres EXCEPT ![r] = NoResult]
  /\ UNCHANGED <<ctools, rwWriter, wpc, wlocal, rlen, otherThanConc>>

\* GetAll, result := make([]ToolDefinition, len(r.tools)).
GetAllMake(r) ==
  /\ rpc[r] = "rlocked" /\ rop[r].op = "GetAll"
  /\ rlen' = [rlen EXCEPT ![r] = Len(ctools)]
  /\ rpc' = [rpc EXCEPT ![r] = "made"]
  /\ UNCHANGED <<ctools, rwWriter, rwReaders, wpc, wlocal, rop, rres, otherThanConc>>

\* GetAll, copy(result, r.tools): min(len(result), len(r.tools)) elements.
GetAllCopy(r) ==
  /\ rpc[r] = "made"
  /\ LET n == IF rlen[r] <= Len(ctools) THEN rlen[r] ELSE Len(ctools)
     IN rres' = [rres EXCEPT ![r].all = SubSeq(ctools, 1, n) \o Zeros(rlen[r] - n)]
  /\ rlen' = [rlen EXCEPT ![r] = 0]
  /\ rpc' = [rpc EXCEPT ![r] = "read"]
  /\ UNCHANGED <<ctools, rwWriter, rwReaders, wpc, wlocal, rop, otherThanConc>>

\* GetByName, the loop over r.tools.
GetByNameScan(r) ==
  /\ rpc[r] = "rlocked" /\ rop[r].op = "GetByName"
  /\ LET hits == {i \in 1..Len(ctools) : ctools[i].Name = rop[r].name}
     IN rres' = [rres EXCEPT ![r] =
          IF hits = {} THEN NoResult
          ELSE [NoResult EXCEPT !.found = TRUE,
                  !.val = ctools[CHOOSE i \in hits : \A j \in hits : i <= j]]]
  /\ rpc' = [rpc EXCEPT ![r] = "read"]
  /\ UNCHANGED <<ctools, rwWriter, rwReaders, wpc, wlocal, rop, rlen, otherThanConc>>

\* GetAll / GetByName, the deferred r.mutex.RUnlock(); the call returns.
RUnlock(r) ==
  /\ rpc[r] = "read"
  /\ rwReaders' = rwReaders \ {r}
  /\ rpc' = [rpc EXCEPT ![r] = "returned"]
  /\ UNCHANGED <<ctools, rwWriter, wpc, wlocal, rop, rlen, rres, otherThanConc>>

ConcNext ==
  \/ \E w \in Writers : LockBegin(w)
  \/ \E w \in Writers : LockEnter(w)
  \/ \E w \in Writers : AppendLoad(w)
  \/ \E w \in Writers : AppendStore(w)
  \/ \E w \in Writers : Unlock(w)
  \/ \E r \in Readers : RLock(r)
  \/ \E r \in Readers : GetAllMake(r)
  \/ \E r \in Readers : GetAllCopy(r)
  \/ \E r \in Readers : GetByNameScan(r)
  \/ \E r \in Readers : RUnlock(r)

\* Writers and readers inside the critical section.
WritersInside == {w \in Writers : wpc[w] \in {"locked", "loaded", "stored"}}
ReadersInside == {r \in Readers : rpc[r] \in {"rlocked", "made", "read"}}

\* C3: under every interleaving of concurrent Register calls with concurrent
\* GetAll / GetByName calls, a writer is never inside the critical section
\* with another writer or with a reader; once every Register has returned the
\* catalog holds each registered definition exactly once; and what a reader
\* got is the catalog after some completed registrations: a prefix of the
\* catalog whose definitions all come from Register calls that have returned.
C3_ExclusiveWritersConsistentReads ==
  /\ Cardinality(WritersInside) <= 1
  /\ WritersInside # {} => ReadersInside = {}
  /\ (\A w \in Writers : wpc[w] = "done") =>
       /\ Len(ctools) = NumWriters
       /\ \A w \in Writers :
            Cardinality({i \in 1..Len(ctools) : ctools[i] = FamilyDef(w)}) = 1
  /\ \A r \in Readers :
       rpc[r] \in {"read", "returned"} =>
         /\ rop[r].op = "GetAll" =>
              /\ Len(rres[r].all) <= Len(ctools)
              /\ rres[r].all = SubSeq(ctools, 1, Len(rres[r].all))
              /\ \A i \in 1..Len(rres[r].all) :
                   \E w \in Writers : wpc[w] = "done" /\ rres[r].all[i] = FamilyDef(w)
         /\ (rop[r].op = "GetByName" /\ rres[r].found) =>
              \E w \in Writers :
                /\ wpc[w] = "done"
                /\ rres[r].val = FamilyDef(w)
                /\ FamilyNames[w] = rop[r].name

\* C3 witness: every Register has returned, a reader that was inside GetAll
\* while an initializer was waiting for the lock has returned all the
\* definitions, and another reader has found one by name.
C3_Witness ==
  /\ \A w \in Writers : wpc[w] = "done"
  /\ \E r1, r2 \in Readers :
       /\ rpc[r1] = "returned" /\ rop[r1].op = "GetAll"
       /\ Len(rres[r1].all) = NumWriters
       /\ rpc[r2] = "returned" /\ rop[r2].op = "GetByName" /\ rres[r2].found

\* Reader r is calling GetAll / GetByName and RLock does not let it in.
ReaderWaits(r) == rpc[r] \in {"idle", "returned"} /\ ~ReaderMayEnter

\* C23: readers do not block one another: whenever RLock makes a reader
\* wait, a writer has called Lock and has not yet unlocked; with no such
\* writer a reader gets in however many readers are inside.
C23_ReadersWaitOnlyForWriters ==
  \A r \in Readers :
    ReaderWaits(r) =>
      /\ rwWriter \in Writers
      /\ wpc[rwWriter] \in {"waiting", "locked", "loaded", "stored"}

\* C23 witness: two readers are inside the read-side critical section at
\* once, one of them copying the catalog, while a writer waits for them.
C23_Witness ==
  /\ Cardinality(ReadersInside) >= 2
  /\ \E r \in ReadersInside : rpc[r] = "made"
  /\ rwWriter \in Writers /\ wpc[rwWriter] = "waiting"

\* ------------------------------------------------------------ edit_file
\* A path with no file.
NoFile == <<"no file">>

\* A path that is a directory.
Dir == <<"directory">>

\* The byte isBinary looks for.
NUL == "\\0"

\* isBinary looks at the first 512 bytes.
BinaryCheckLen == 512

\* The raw argument payloads the model sends: one that does not decode into
\* EditFileInput, and decodable ones.
EditPayloads ==
  { [json |-> "malformed", path |-> "", old_str |-> <<>>, new_str |-> <<>>],
    [json |-> "object", path |-> "", old_str |-> <<"a">>, new_str |-> <<"b">>],
    [json |-> "object", path |-> "f", old_str |-> <<"a">>, new_str |-> <<"b">>] }

\* The zero value of EditFileInput.
ZeroEditInput == [path |-> "", old_str |-> <<>>, new_str |-> <<>>]

\* json.Unmarshal(input, &editFileInput): an error and the input left zero, or
\* the decoded fields.
Unmarshal(raw) ==
  IF raw.json = "malformed"
  THEN [err |-> "invalid character looking for beginning of value", val |-> ZeroEditInput]
  ELSE [err |-> Nil, val |-> [path |-> raw.path, old_str |-> raw.old_str, new_str |-> raw.new_str]]

\* sub occurs in s at position i.
OccursAt(s, sub, i) ==
  /\ i >= 1 /\ i + Len(sub) - 1 <= Len(s)
  /\ SubSeq(s, i, i + Len(sub) - 1) = sub

\* strings.Count(s, sub) for a non-empty sub: non-overlapping occurrences from i on.
RECURSIVE CountFrom(_, _, _)
CountFrom(s, sub, i) ==
  IF i + Len(sub) - 1 > Len(s) THEN 0
  ELSE IF OccursAt(s, sub, i) THEN 1 + CountFrom(s, sub, i + Len(sub))
  ELSE CountFrom(s, sub, i + 1)

Count(s, sub) == CountFrom(s, sub, 1)

\* strings.Replace(s, old, new, 1): the first occurrence replaced.
ReplaceFirst(s, old, new) ==
  LET hits == {i \in 1..Len(s) : OccursAt(s, old, i)}
  IN IF hits = {} THEN s
     ELSE LET i == CHOOSE k \in hits : \A j \in hits : k <= j
          IN SubSeq(s, 1, i - 1) \o new \o SubSeq(s, i + Len(old), Len(s))

\* isBinary: a NUL byte among the first 512 bytes.
isBinary(data) ==
  LET checkLen == IF Len(data) < BinaryCheckLen THEN Len(data) ELSE BinaryCheckLen
  IN \E i \in 1..checkLen : data[i] = NUL

\* What Execute returns and did: the result text, the error (Nil if none),
\* the filesystem afterwards and the file operations performed.
Outcome(text, err, fs, ops) == [text |-> text, err |-> err, files |-> fs, ops |-> ops]

\* Mutant of NotFound: a search string that does not occur is not an error.
NotFoundIgnored(fs) == Outcome("Successfully edited file", Nil, fs, <<"ReadFile">>)

\* count == 0: the edit fails and the file is left alone.
NotFound(fs) == Outcome("", "old_str not found in file", fs, <<"ReadFile">>)

\* EditFileTool.Execute after the input is decoded: the checks, the read,
\* the replacement and the write.
EditDecoded(in, fs) ==
  IF in.path = ""
    THEN Outcome("", "path cannot be empty. Provide a file path to edit", fs, <<>>)
  ELSE IF in.old_str = <<>>
    THEN Outcome("", "old_str cannot be empty. Use create_file or write_file for new files", fs, <<>>)
  ELSE IF in.old_str = in.new_str
    THEN Outcome("", "old_str and new_str must be different", fs, <<>>)
  ELSE IF fs[in.path] = NoFile
    THEN Outcome("", "file does not exist. Use create_file or write_file for new files", fs,
                 <<"ReadFile">>)
  ELSE IF fs[in.path] = Dir
    THEN Outcome("", "read: is a directory", fs, <<"ReadFile">>)
  ELSE IF isBinary(fs[in.path])
    THEN Outcome("", "cannot edit binary file", fs, <<"ReadFile">>)
  ELSE IF Count(fs[in.path], in.old_str) = 0
    THEN NotFound(fs)
  ELSE IF Count(fs[in.path], in.old_str) > 1
    THEN Outcome("", "old_str found more than once in file, must exist exactly once", fs,
                 <<"ReadFile">>)
  ELSE Outcome("Successfully edited file", Nil,
               [fs EXCEPT ![in.path] = ReplaceFirst(fs[in.path], in.old_str, in.new_str)],
               <<"ReadFile", "WriteFile">>)

\* Mutant of EditFileExecute: the Unmarshal error is not looked at and Execute
\* goes on with the input as Unmarshal left it.
EditFileExecuteIgnoringDecodeError(raw, fs) == EditDecoded(Unmarshal(raw).val, fs)

\* EditFileTool.Execute (the exactly-once variant): decode, then the rest.
EditFileExecute(raw, fs) ==
  LET d == Unmarshal(raw)
  IN IF d.err # Nil THEN Outcome("", d.err, fs, <<>>) ELSE EditDecoded(d.val, fs)

\* ------------------------------------------- dispatcher, engine and main
\* Tool-call turns the model takes in one session.
MaxToolTurns == 1
\* Tool-call requests in one assistant turn.
MaxCalls == 2
\* Operator lines read in one session.
MaxInputs == 1

\* The tool list main hands to the agent (the registry's GetAll).
registeredTools == {"edit_file"}

\* The tool names the model asks for: a registered one and an unknown one.
RequestedNames == {"edit_file", "no_such_tool"}

\* The tool-call requests the model emits: an unknown tool is asked for with
\* one payload, edit_file with every payload.
Requests ==
  {[name |-> "edit_file", raw |-> r] : r \in EditPayloads} \cup
  {[name |-> "no_such_tool", raw |-> r] : r \in {p \in EditPayloads : p.path = "f"}}

\* The assistant turns with tool calls: 1..MaxCalls requests in some order.
RequestLists == UNION {[1..n -> Requests] : n \in 1..MaxCalls}

\* Dispatcher.Execute: look the tool up, call its Function with the raw
\* payload, and turn the outcome into result text and a failure flag.
Dispatch(name, raw, fs) ==
  IF name \notin registeredTools
  THEN [found |-> FALSE, invoked |-> FALSE, text |-> "tool not found", isError |-> TRUE,
        files |-> fs, ops |-> <<>>]
  ELSE LET o == EditFileExecute(raw, fs)
       IN [found |-> TRUE, invoked |-> TRUE,
           text |-> IF o.err # Nil THEN o.err ELSE o.text,
           isError |-> o.err # Nil,
           files |-> o.files, ops |-> o.ops]

EngInit ==
  /\ engState = "AwaitingUserInput"
  /\ messages = <<>>
  /\ results = <<>>
  /\ sent = <<>>
  /\ execLog = <<>>
  /\ files = [p \in {"f"} |-> <<"a", "b">>]
  /\ toolTurns = 0
  /\ inputs = 0
  /\ nextId = 1
  /\ runErr = Nil
  /\ mainPc = "running"
  /\ printed = 0
  /\ exitStatus = 0

\* The tool-call requests of the last message (none unless it is an
\* assistant turn with tool calls).
PendingRequests ==
  IF messages # <<>> /\ messages[Len(messages)].role = "assistant"
  THEN messages[Len(messages)].blocks
  ELSE <<>>

\* Mutant of NextIndex: the requests are taken from the last to the first.
NextIndexFromEnd(n, done) == n - done

\* The request ExecutingTools runs next, of n, when done are answered: in the
\* order the model emitted them.
NextIndex(n, done) == done + 1

\* AwaitingUserInput, the input stream is empty or closed: Run returns nil.
InputClosed ==
  /\ engState = "AwaitingUserInput"
  /\ engState' = "Terminated"
  /\ UNCHANGED <<messages, results, sent, execLog, files, toolTurns, inputs, nextId,
                 runErr, mainPc, printed, exitStatus, otherThanEng>>

\* AwaitingUserInput, one line is read and appended as a user message.
UserInput ==
  /\ engState = "AwaitingUserInput"
  /\ inputs < MaxInputs
  /\ inputs' = inputs + 1
  /\ messages' = Append(messages, [role |-> "user", blocks |-> <<>>])
  /\ engState' = "AwaitingModelResponse"
  /\ UNCHANGED <<results, sent, execLog, files, toolTurns, nextId,
                 runErr, mainPc, printed, exitStatus, otherThanEng>>

\* Mutant of AfterProviderFailure: the engine stays and calls the model again.
AfterProviderFailureRetry == "AwaitingModelResponse"

\* Where the engine goes when the provider call fails.
AfterProviderFailure == "Terminated"

\* AwaitingModelResponse, the provider call fails: Run returns the error.
ProviderFails ==
  /\ engState = "AwaitingModelResponse"
  /\ sent' = messages
  /\ runErr' = "provider error"
  /\ engState' = AfterProviderFailure
  /\ UNCHANGED <<messages, results, execLog, files, toolTurns, inputs, nextId,
                 mainPc, printed, exitStatus, otherThanEng>>

\* AwaitingModelResponse, the model answers with text only.
ModelText ==
  /\ engState = "AwaitingModelResponse"
  /\ sent' = messages
  /\ messages' = Append(messages, [role |-> "assistant", blocks |-> <<>>])
  /\ engState' = "AwaitingUserInput"
  /\ UNCHANGED <<results, execLog, files, toolTurns, inputs, nextId,
                 runErr, mainPc, printed, exitStatus, otherThanEng>>

\* AwaitingModelResponse, the model answers with tool-call requests.
ModelToolCalls ==
  /\ engState = "AwaitingModelResponse"
  /\ toolTurns < MaxToolTurns
  /\ \E reqs \in RequestLists :
       messages' = Append(messages,
         [role |-> "assistant",
          blocks |-> [i \in 1..Len(reqs) |->
                        [id |-> nextId + i - 1, name |-> reqs[i].name, raw |-> reqs[i].raw]]])
  /\ nextId' = nextId + Len(messages'[Len(messages')].blocks)
  /\ sent' = messages
  /\ toolTurns' = toolTurns + 1
  /\ results' = <<>>
  /\ engState' = "ExecutingTools"
  /\ UNCHANGED <<execLog, files, inputs, runErr, mainPc, printed, exitStatus, otherThanEng>>

\* ExecutingTools: a request of the turn is still to be dispatched.
MoreToExecute == engState = "ExecutingTools" /\ Len(results) < Len(PendingRequests)

\* ExecutingTools: every request of the turn has its result block.
AllAnswered == engState = "ExecutingTools" /\ Len(results) = Len(PendingRequests)

\* ExecutingTools, the next request of the turn is dispatched.
ExecuteNextTool ==
  /\ MoreToExecute
  /\ LET req == PendingRequests[NextIndex(Len(PendingRequests), Len(results))]
         d == Dispatch(req.name, req.raw, files)
     IN /\ results' = Append(results, [id |-> req.id, text |-> d.text, isError |-> d.isError])
        /\ execLog' = Append(execLog, [id |-> req.id, name |-> req.name, raw |-> req.raw,
                                       found |-> d.found, invoked |-> d.invoked,
                                       text |-> d.text, isError |-> d.isError,
                                       ops |-> d.ops, before |-> files, after |-> d.files])
        /\ files' = d.files
  /\ UNCHANGED <<engState, messages, sent, toolTurns, inputs, nextId,
                 runErr, mainPc, printed, exitStatus, otherThanEng>>

\* Mutant of AfterToolResults: control goes back to the operator.
AfterToolResultsToOperator == "AwaitingUserInput"

\* Where the engine goes once the tool results are appended.
AfterToolResults == "AwaitingModelResponse"

\* ExecutingTools, every request is answered: one tool-result message.
AppendToolResults ==
  /\ AllAnswered
  /\ messages' = Append(messages, [role |-> "tool-result", blocks |-> results])
  /\ results' = <<>>
  /\ engState' = AfterToolResults
  /\ UNCHANGED <<sent, execLog, files, toolTurns, inputs, nextId,
                 runErr, mainPc, printed, exitStatus, otherThanEng>>

\* main after agentInstance.Run returned: the error, if any, is printed and
\* main returns.
MainReturns ==
  /\ engState = "Terminated"
  /\ mainPc = "running"
  /\ printed' = IF runErr # Nil THEN printed + 1 ELSE printed
  /\ exitStatus' = 0
  /\ mainPc' = "exited"
  /\ UNCHANGED <<engState, messages, results, sent, execLog, files, toolTurns, inputs,
                 nextId, runErr, otherThanEng>>

EngNext ==
  \/ InputClosed
  \/ UserInput
  \/ ProviderFails
  \/ ModelText
  \/ ModelToolCalls
  \/ ExecuteNextTool
  \/ AppendToolResults
  \/ MainReturns

\* ---------------------------------------------------------- engine claims
\* The assistant turns with tool calls in a conversation m.
ToolTurnsOf(m) == {i \in 1..Len(m) : m[i].role = "assistant" /\ m[i].blocks # <<>>}

\* In conversation m, turn i is answered by the message right after it: one
\* tool-result message, a block per request, same order, same identifiers.
Answered(m, i) ==
  /\ i < Len(m)
  /\ m[i + 1].role = "tool-result"
  /\ Len(m[i + 1].blocks) = Len(m[i].blocks)
  /\ \A k \in 1..Len(m[i].blocks) : m[i + 1].blocks[k].id = m[i].blocks[k].id

\* C4: the N tool calls of an assistant turn are executed one at a time in
\* the order the model emitted them; the message appended right after the
\* turn is one tool-result message with N blocks, the i-th carrying the i-th
\* request's identifier; and no model call is issued before it is appended.
C4_CallsAnsweredInOrder ==
  /\ \A i \in ToolTurnsOf(messages) :
       \/ Answered(messages, i)
       \/ /\ i = Len(messages)
          /\ engState = "ExecutingTools"
          /\ Len(results) <= Len(messages[i].blocks)
          /\ \A k \in 1..Len(results) : results[k].id = messages[i].blocks[k].id
  /\ \A i \in ToolTurnsOf(sent) : Answered(sent, i)
  /\ \A k \in 1..Len(execLog) : execLog[k].id = k
  /\ Len(execLog) = nextId - 1 - (Len(PendingRequests) - Len(results))

\* C4 witness: a turn of two tool calls has been executed and its
\* tool-result message, two blocks, has gone to the model.
C4_Witness ==
  /\ sent # <<>>
  /\ sent[Len(sent)].role = "tool-result"
  /\ Len(sent[Len(sent)].blocks) >= 2
  /\ Len(execLog) >= 2

\* What a dispatched call must come back with: for each kind of failure the
\* failure flag and the error's message, else success.
Expected(e) ==
  IF e.name \notin registeredTools THEN [isError |-> TRUE, text |-> "tool not found"]
  ELSE IF e.raw.json = "malformed"
    THEN [isError |-> TRUE, text |-> "invalid character looking for beginning of value"]
  ELSE IF e.raw.path = ""
    THEN [isError |-> TRUE, text |-> "path cannot be empty. Provide a file path to edit"]
  ELSE IF Count(e.before[e.raw.path], e.raw.old_str) = 0
    THEN [isError |-> TRUE, text |-> "old_str not found in file"]
  ELSE [isError |-> FALSE, text |-> "Successfully edited file"]

IsToolCallTurn(m) == m.role = "assistant" /\ m.blocks # <<>>

\* In conversation ms every assistant turn with tool calls that has a
\* successor is followed by the tool-result message, not by a user message.
ToolTurnsAnsweredNext(ms) ==
  \A i \in 1..Len(ms) :
    (IsToolCallTurn(ms[i]) /\ i < Len(ms)) => ms[i + 1].role = "tool-result"

\* C20: after an assistant turn with tool-call requests the engine goes
\* through ExecutingTools to the next model call with no user message in
\* between: in the conversation, and in the conversation as last handed to
\* the provider, a tool-call turn is followed by its tool-result message,
\* and no model call is made right after a tool-call turn; the engine is in
\* AwaitingUserInput only at the start or after a model turn without
\* tool-call requests.
C20_ToolLoopSkipsOperator ==
  /\ ToolTurnsAnsweredNext(messages)
  /\ ToolTurnsAnsweredNext(sent)
  /\ sent # <<>> => sent[Len(sent)].role \in {"user", "tool-result"}
  /\ engState = "AwaitingUserInput" =>
       \/ messages = <<>>
       \/ /\ messages[Len(messages)].role = "assistant"
          /\ ~IsToolCallTurn(messages[Len(messages)])
  /\ (messages # <<>> /\ IsToolCallTurn(messages[Len(messages)])) =>
       engState \in {"ExecutingTools", "Terminated"}
  /\ (messages # <<>> /\ messages[Len(messages)].role = "tool-result") =>
       engState \in {"AwaitingModelResponse", "Terminated"}

\* The engine is back in AwaitingUserInput after a tool-call turn, its
\* results and a model turn without tool calls.
C20_Witness ==
  /\ engState = "AwaitingUserInput"
  /\ Len(messages) = 4
  /\ messages[1].role = "user"
  /\ IsToolCallTurn(messages[2])
  /\ messages[3].role = "tool-result"
  /\ messages[4].role = "assistant" /\ messages[4].blocks = <<>>
  /\ sent = SubSeq(messages, 1, 3)

\* What the engine reads, issues, executes and appends.
engineActivity == <<engState, messages, results, sent, execLog, files, toolTurns, inputs,
                    nextId, runErr>>

\* C21: the engine enters Terminated exactly by the end of operator input in
\* AwaitingUserInput (no line read, no error) or by a failed provider call
\* in AwaitingModelResponse (the error is kept and the call is not made
\* again); once Terminated, no input is read, no model call is issued, no
\* tool is executed and no message is appended.
C21_TerminatedOnlyByInputEndOrProviderFailure ==
  [][ /\ engState = "Terminated" => UNCHANGED engineActivity
      /\ (engState # "Terminated" /\ engState' = "Terminated") =>
           \/ /\ engState = "AwaitingUserInput"
              /\ runErr' = Nil
              /\ UNCHANGED <<messages, inputs, sent, execLog, files>>
           \/ /\ engState = "AwaitingModelResponse"
              /\ runErr' # Nil
              /\ sent' = messages
              /\ UNCHANGED <<messages, inputs, execLog, files>>
      /\ runErr' # Nil => engState' = "Terminated"
    ]_vars

\* The session ended by a provider failure after a tool loop, and main went
\* on from the Terminated engine.
C21_Witness ==
  /\ engState = "Terminated" /\ mainPc = "exited"
  /\ runErr # Nil
  /\ execLog # <<>>
  /\ sent = messages

\* C7 (as claimed): when Run returned a fatal error, main printed it once and
\* the process exits with a non-zero status.
C7_FatalErrorExitsNonZero ==
  (mainPc = "exited" /\ runErr # Nil) => (printed = 1 /\ exitStatus # 0)

\* ------------------------------------------------------------ file tools
\* Strings are sequences of characters; the characters of file contents and
\* of search and replacement strings.
Alphabet == {"a", "b"}

\* Longest file content.
MaxContent == 3

\* The strings over Alphabet of length at most n.
Strings(n) == UNION {[1..k -> Alphabet] : k \in 0..n}

\* The paths the model names: a regular file, a directory, and no path.
FilePath == "f"
DirPath == "d"
Paths == {FilePath, DirPath}

DiskInit == [p \in Paths |-> IF p = DirPath THEN Dir ELSE <<"a", "a", "a">>]

\* What a call that asks the operator nothing got from the operator.
NoAnswer == [asked |-> FALSE, line |-> <<>>, ok |-> FALSE]

NoOutcome == Outcome("", Nil, DiskInit, <<>>)

FileInit ==
  /\ disk = DiskInit
  /\ lastCall = [tool |-> "none", raw |-> <<>>, ctx |-> Nil, answer |-> NoAnswer,
                 before |-> DiskInit, out |-> NoOutcome]

\* ---------------------------------------------------------- delete_file
\* The raw payloads for delete_file: undecodable, and objects with a path.
DeletePayloads ==
  {[json |-> "malformed", path |-> ""]} \cup
  {[json |-> "object", path |-> p] : p \in Paths \cup {""}}

\* ToolContext: GetUserInput is nil or the function that reads the operator's line.
ToolContexts == {[GetUserInput |-> Nil], [GetUserInput |-> "getUserMessage"]}

\* The lines the operator may type.
Replies ==
  { <<>>, <<"y">>, <<"Y">>, <<"y", "e", "s">>, <<" ", "Y", "E", "S", "\n">>,
    <<"n", "o">>, <<"y", "e", "s", "s">>, <<"y", " ", "e", "s">> }

\* What GetUserInput may return: a line, or no input (ok = false).
Answers ==
  {[asked |-> TRUE, line |-> l, ok |-> TRUE] : l \in Replies} \cup
  {[asked |-> TRUE, line |-> <<>>, ok |-> FALSE]}

\* unicode.IsSpace on the characters of the model.
IsSpace(c) == c \in {" ", "\n", "\t"}

\* strings.TrimSpace: leading and trailing white space removed.
RECURSIVE TrimLeft(_)
TrimLeft(s) == IF s # <<>> /\ IsSpace(Head(s)) THEN TrimLeft(Tail(s)) ELSE s

RECURSIVE TrimRight(_)
TrimRight(s) ==
  IF s # <<>> /\ IsSpace(s[Len(s)]) THEN TrimRight(SubSeq(s, 1, Len(s) - 1)) ELSE s

TrimSpace(s) == TrimRight(TrimLeft(s))

\* strings.ToLower, character by character.
LowerOf(c) ==
  CASE c = "Y" -> "y" [] c = "E" -> "e" [] c = "S" -> "s" [] OTHER -> c

ToLower(s) == [i \in 1..Len(s) |-> LowerOf(s[i])]

\* DeleteFileInput after json.Unmarshal, and DeleteFileInput.Validate.
parseAndValidateInput(raw) ==
  IF raw.json = "malformed" THEN [err |-> "invalid JSON input", path |-> ""]
  ELSE IF raw.path = "" THEN [err |-> "parameter \"path\" is required", path |-> ""]
  ELSE [err |-> Nil, path |-> raw.path]

\* Mutant of validateFileExists: a directory passes for a file.
validateFileExistsAnyKind(path, fs) ==
  IF fs[path] = NoFile THEN "file not found" ELSE Nil

\* validateFileExists: os.Stat, not found, or a directory.
validateFileExists(path, fs) ==
  IF fs[path] = NoFile THEN "file not found"
  ELSE IF fs[path] = Dir THEN "is a directory, not a file"
  ELSE Nil

\* Mutant of IsYes: any reply that begins with y counts as a confirmation.
IsYesByFirstLetter(response) == response # <<>> /\ Head(response) = "y"

\* The last line of confirmDeletion: response == "yes" || response == "y".
IsYes(response) == response \in {<<"y", "e", "s">>, <<"y">>}

\* confirmDeletion: with no GetUserInput it warns and proceeds; otherwise it
\* prompts, reads the operator's line and compares it.
confirmDeletion(ctx, answer) ==
  IF ctx.GetUserInput = Nil THEN [confirmed |-> TRUE, answer |-> NoAnswer]
  ELSE IF ~answer.ok THEN [confirmed |-> FALSE, answer |-> answer]
  ELSE [confirmed |-> IsYes(ToLower(TrimSpace(answer.line))), answer |-> answer]

\* DeleteFileTool.Execute. answer is what GetUserInput returns if it is called.
DeleteFileExecute(ctx, raw, fs, answer) ==
  LET in == parseAndValidateInput(raw)
  IN IF in.err # Nil THEN [out |-> Outcome("", in.err, fs, <<>>), answer |-> NoAnswer]
     ELSE IF validateFileExists(in.path, fs) # Nil
       THEN [out |-> Outcome("", validateFileExists(in.path, fs), fs, <<"Stat">>),
             answer |-> NoAnswer]
     ELSE LET c == confirmDeletion(ctx, answer)
              asked == IF c.answer.asked THEN <<"Stat", "GetUserInput">> ELSE <<"Stat">>
          IN IF ~c.confirmed
             THEN [out |-> Outcome("File deletion cancelled by user", Nil, fs, asked),
                   answer |-> c.answer]
             ELSE [out |-> Outcome("Successfully deleted file", Nil,
                                   [fs EXCEPT ![in.path] = NoFile],
                                   Append(asked, "Remove")),
                   answer |-> c.answer]

\* One call of delete_file.
DeleteFileCall ==
  \E raw \in DeletePayloads, ctx \in ToolContexts, answer \in Answers :
    LET r == DeleteFileExecute(ctx, raw, disk, answer)
    IN /\ lastCall' = [tool |-> "delete_file", raw |-> raw, ctx |-> ctx,
                       answer |-> r.answer, before |-> disk, out |-> r.out]
       /\ disk' = r.out.files
       /\ UNCHANGED otherThanFile

\* The last call ran os.Remove.
Removed == \E i \in 1..Len(lastCall.out.ops) : lastCall.out.ops[i] = "Remove"

\* C11: in delete_file, when the operator was prompted and the reply, trimmed
\* and lower-cased, is neither yes nor y, or no input was available, Execute
\* returns "File deletion cancelled by user" with no error and the
\* filesystem is as it was before the call.
C11_DeclinedDeletionChangesNothing ==
  ( /\ lastCall.tool = "delete_file"
    /\ lastCall.answer.asked
    /\ \/ ~lastCall.answer.ok
       \/ ToLower(TrimSpace(lastCall.answer.line)) \notin {<<"y", "e", "s">>, <<"y">>} )
  => /\ lastCall.out.text = "File deletion cancelled by user"
     /\ lastCall.out.err = Nil
     /\ lastCall.out.files = lastCall.before
     /\ disk = lastCall.before
     /\ ~Removed

\* A prompted delete_file call that the operator declined with a line that
\* begins like a confirmation.
C11_Witness ==
  /\ lastCall.tool = "delete_file"
  /\ lastCall.answer.asked /\ lastCall.answer.ok
  /\ lastCall.answer.line = <<"y", "e", "s", "s">>
  /\ lastCall.out.text = "File deletion cancelled by user"
  /\ disk[FilePath] # NoFile

\* The last call asked the operator.
Prompted ==
  \/ lastCall.answer.asked
  \/ \E i \in 1..Len(lastCall.out.ops) : lastCall.out.ops[i] = "GetUserInput"

\* The path of the last delete_file call names nothing that can be deleted:
\* it is empty, nothing is there, or a directory is there.
NothingToDelete ==
  \/ lastCall.raw.json = "object" /\ lastCall.raw.path = ""
  \/ /\ lastCall.raw.json = "object" /\ lastCall.raw.path \in Paths
     /\ lastCall.before[lastCall.raw.path] \in {NoFile, Dir}

\* C24: delete_file validates before it prompts and before it deletes: for
\* an empty path, a path where nothing is, or a directory, Execute returns
\* an error, the operator was not asked and the filesystem is as before;
\* and no delete_file call removes a directory.
C24_ValidatesBeforePromptAndDelete ==
  lastCall.tool = "delete_file" =>
    /\ NothingToDelete =>
         /\ lastCall.out.err # Nil
         /\ ~Prompted /\ ~Removed
         /\ disk = lastCall.before
    /\ \A p \in Paths : lastCall.before[p] = Dir => disk[p] = Dir

\* C24 witness: delete_file was called on a directory, with an operator who
\* would have confirmed, and returned the directory error.
C24_Witness ==
  /\ lastCall.tool = "delete_file"
  /\ lastCall.raw.json = "object" /\ lastCall.raw.path = DirPath
  /\ lastCall.ctx.GetUserInput # Nil
  /\ lastCall.out.err = "is a directory, not a file"
  /\ disk[DirPath] = Dir

\* C12 (as claimed): whenever delete_file removed a file, the operator was
\* prompted during that call and answered yes or y, whatever the ToolContext
\* holds.
C12_NoRemovalWithoutConfirmation ==
  (lastCall.tool = "delete_file" /\ lastCall.out.files # lastCall.before)
  => /\ lastCall.answer.asked /\ lastCall.answer.ok
     /\ ToLower(TrimSpace(lastCall.answer.line)) \in {<<"y", "e", "s">>, <<"y">>}

\* ------------------------------------------- edit_file, called directly
\* A file content with a NUL byte near its start.
BinaryContent == <<"a", NUL>>

\* Every file stays within the longest content of the model.
Fits(fs) == \A p \in Paths : fs[p] \in {NoFile, Dir} \/ Len(fs[p]) <= MaxContent

\* The search and replacement strings the calls send.
OldStrs == {<<>>, <<"a">>, <<"a", "a">>, <<"b">>}
NewStrs == {<<>>, <<"b">>, <<"a", "b">>}

\* The raw payloads for edit_file: undecodable, and objects with the three fields.
EditCallPayloads(olds) ==
  {[json |-> "malformed", path |-> "", old_str |-> <<>>, new_str |-> <<>>]} \cup
  {[json |-> "object", path |-> p, old_str |-> o, new_str |-> n] :
     p \in Paths \cup {""}, o \in olds, n \in NewStrs}

\* One call of edit_file, exactly-once variant.
EditFileCall ==
  \E raw \in EditCallPayloads(OldStrs) :
    LET out == EditFileExecute(raw, disk)
    IN /\ Fits(out.files)
       /\ lastCall' = [tool |-> "edit_file exactly-once", raw |-> raw, ctx |-> Nil,
                       answer |-> NoAnswer, before |-> disk, out |-> out]
       /\ disk' = out.files
       /\ UNCHANGED otherThanFile

\* The positions at which sub occurs in s.
Occurrences(s, sub) == {i \in 1..Len(s) : OccursAt(s, sub, i)}

\* s with the occurrence of old at position i replaced by new.
ReplacedAt(s, old, new, i) == SubSeq(s, 1, i - 1) \o new \o SubSeq(s, i + Len(old), Len(s))

\* The last call ran os.WriteFile.
Wrote == \E i \in 1..Len(lastCall.out.ops) : lastCall.out.ops[i] = "WriteFile"

\* path names a regular file of fs.
IsRegular(fs, path) == path \in DOMAIN fs /\ fs[path] \notin {NoFile, Dir}

\* C13 (as claimed): the exactly-once edit_file writes the file if and only
\* if the payload decodes, path and old_str are non-empty, old_str differs
\* from new_str, the file exists, has no NUL byte in its first 512 bytes and
\* old_str occurs exactly once in it; the new content is the old content
\* with that occurrence replaced; in every other case an error is returned
\* and the file is unchanged.
C13_WritesIffOldStrOccursOnce ==
  lastCall.tool = "edit_file exactly-once" =>
    LET in == lastCall.raw
        fs == lastCall.before
        ok == /\ in.json = "object" /\ in.path # "" /\ in.old_str # <<>>
              /\ in.old_str # in.new_str
              /\ IsRegular(fs, in.path)
              /\ ~(\E i \in 1..Len(fs[in.path]) : i <= 512 /\ fs[in.path][i] = NUL)
              /\ Cardinality(Occurrences(fs[in.path], in.old_str)) = 1
    IN /\ Wrote <=> ok
       /\ ok => /\ lastCall.out.err = Nil
                /\ \E i \in Occurrences(fs[in.path], in.old_str) :
                     disk = [fs EXCEPT ![in.path] = ReplacedAt(fs[in.path], in.old_str, in.new_str, i)]
       /\ ~ok => (lastCall.out.err # Nil /\ disk = fs)

\* ------------------------------------------- edit_file, placeholder variant
\* isFileCreationRequest: the old_str values that ask for a new file.
creationPlaceholders ==
  { <<>>, <<"FILE_DOES_NOT_EXIST">>, <<"NEW_FILE">>, <<"PLACEHOLDER">>, <<"empty">>,
    <<"CREATE_FILE">> }

\* Mutant of isFileCreationRequest: the placeholders match in any case.
isFileCreationRequestAnyCase(oldStr) ==
  oldStr \in creationPlaceholders \cup {<<"new_file">>}

isFileCreationRequest(oldStr) == oldStr \in creationPlaceholders

\* createNewFile: os.WriteFile creates or truncates the file; the paths of
\* the model have no directory part, so MkdirAll is not reached.
createNewFile(filePath, content, fs) ==
  IF fs[filePath] = Dir
  THEN Outcome("", "failed to create file", fs, <<"WriteFile">>)
  ELSE Outcome("Successfully created file", Nil, [fs EXCEPT ![filePath] = content],
               <<"WriteFile">>)

\* strings.Replace(s, old, new, -1) for a non-empty old: every
\* non-overlapping occurrence, left to right, from position i on.
RECURSIVE ReplaceAllFrom(_, _, _, _)
ReplaceAllFrom(s, old, new, i) ==
  IF i > Len(s) THEN <<>>
  ELSE IF OccursAt(s, old, i) THEN new \o ReplaceAllFrom(s, old, new, i + Len(old))
  ELSE <<s[i]>> \o ReplaceAllFrom(s, old, new, i + 1)

ReplaceAll(s, old, new) == ReplaceAllFrom(s, old, new, 1)

\* EditFileTool.Execute of the placeholder variant.
EditPlaceholderExecute(raw, fs) ==
  LET d == Unmarshal(raw)
      in == d.val
  IN IF d.err # Nil THEN Outcome("", d.err, fs, <<>>)
     ELSE IF in.path = "" THEN Outcome("", "path cannot be empty", fs, <<>>)
     ELSE IF isFileCreationRequest(in.old_str) THEN createNewFile(in.path, in.new_str, fs)
     ELSE IF in.old_str = in.new_str
       THEN Outcome("", "old_str and new_str must be different", fs, <<>>)
     ELSE IF fs[in.path] = NoFile
       THEN Outcome("", "file does not exist", fs, <<"ReadFile">>)
     ELSE IF fs[in.path] = Dir
       THEN Outcome("", "read: is a directory", fs, <<"ReadFile">>)
     ELSE IF in.old_str = <<>>
       THEN IF fs[in.path] = <<>>
            THEN Outcome("OK", Nil, [fs EXCEPT ![in.path] = in.new_str],
                         <<"ReadFile", "WriteFile">>)
            ELSE Outcome("", "old_str cannot be empty when file has existing content", fs,
                         <<"ReadFile">>)
     ELSE LET newContent == ReplaceAll(fs[in.path], in.old_str, in.new_str)
          IN IF fs[in.path] = newContent
             THEN Outcome("", "old_str not found in file", fs, <<"ReadFile">>)
             ELSE Outcome("OK", Nil, [fs EXCEPT ![in.path] = newContent],
                          <<"ReadFile", "WriteFile">>)

\* One call of edit_file, placeholder variant.
EditPlaceholderCall ==
  \E raw \in EditCallPayloads(OldStrs \cup {<<"NEW_FILE">>}) :
    LET out == EditPlaceholderExecute(raw, disk)
    IN /\ Fits(out.files)
       /\ lastCall' = [tool |-> "edit_file placeholder", raw |-> raw, ctx |-> Nil,
                       answer |-> NoAnswer, before |-> disk, out |-> out]
       /\ disk' = out.files
       /\ UNCHANGED otherThanFile

\* C14 (as claimed): in the placeholder variant an edit of an existing file
\* with a non-placeholder old_str succeeds only if old_str occurs exactly
\* once; with zero or several occurrences an error is returned and the file
\* is unchanged.
C14_PlaceholderEditNeedsOneOccurrence ==
  ( /\ lastCall.tool = "edit_file placeholder"
    /\ lastCall.raw.json = "object"
    /\ lastCall.raw.old_str \notin creationPlaceholders
    /\ IsRegular(lastCall.before, lastCall.raw.path) )
  => LET n == Cardinality(Occurrences(lastCall.before[lastCall.raw.path], lastCall.raw.old_str))
     IN /\ lastCall.out.err = Nil => n = 1
        /\ n # 1 => (lastCall.out.err # Nil /\ disk = lastCall.before)

\* C26 (as claimed): in the placeholder variant a call with an empty old_str
\* on an existing file that has content returns "old_str cannot be empty
\* when file has existing content" and leaves the file unchanged; an empty
\* old_str is accepted only on an existing empty file, which gets new_str.
C26_EmptyOldStrNeedsEmptyFile ==
  ( /\ lastCall.tool = "edit_file placeholder"
    /\ lastCall.raw.json = "object"
    /\ lastCall.raw.path \in Paths
    /\ lastCall.raw.old_str = <<>> )
  => /\ ( IsRegular(lastCall.before, lastCall.raw.path)
          /\ lastCall.before[lastCall.raw.path] # <<>> )
        => /\ lastCall.out.err = "old_str cannot be empty when file has existing content"
           /\ disk = lastCall.before
     /\ lastCall.out.err = Nil
        => /\ lastCall.before[lastCall.raw.path] = <<>>
           /\ disk[lastCall.raw.path] = lastCall.raw.new_str

\* ------------------------------------------------------------ write_file
\* The raw payloads for write_file.
WritePayloads ==
  {[json |-> "malformed", path |-> "", content |-> <<>>]} \cup
  {[json |-> "object", path |-> p, content |-> c] :
     p \in Paths \cup {""}, c \in Strings(MaxContent) \cup {BinaryContent}}

\* WriteFileTool.Execute (both copies differ in their messages only); the
\* paths of the model have no directory part, so MkdirAll is not reached.
WriteFileExecute(raw, fs) ==
  IF raw.json = "malformed"
    THEN Outcome("", "invalid character looking for beginning of value", fs, <<>>)
  ELSE IF raw.path = ""
    THEN Outcome("", "path parameter is required", fs, <<>>)
  ELSE IF raw.content = <<>>
    THEN Outcome("", "content parameter is required and cannot be empty", fs, <<>>)
  ELSE IF fs[raw.path] = Dir
    THEN Outcome("", "failed to write file", fs, <<"WriteFile">>)
  ELSE Outcome("Successfully wrote content to file", Nil,
               [fs EXCEPT ![raw.path] = raw.content], <<"WriteFile">>)

\* One call of write_file.
WriteFileCall ==
  \E raw \in WritePayloads :
    LET out == WriteFileExecute(raw, disk)
    IN /\ lastCall' = [tool |-> "write_file", raw |-> raw, ctx |-> Nil,
                       answer |-> NoAnswer, before |-> disk, out |-> out]
       /\ disk' = out.files
       /\ UNCHANGED otherThanFile

\* C15 (as claimed): for a non-empty path that is not a directory, write
\* with content "" succeeds and leaves an empty file, and write with
\* non-empty content succeeds and leaves exactly that content, whether or
\* not a file existed.
C15_WriteAcceptsAnyContent ==
  ( /\ lastCall.tool = "write_file"
    /\ lastCall.raw.json = "object"
    /\ lastCall.raw.path # ""
    /\ lastCall.before[lastCall.raw.path] # Dir )
  => /\ lastCall.out.err = Nil
     /\ disk = [lastCall.before EXCEPT ![lastCall.raw.path] = lastCall.raw.content]

\* The file tools, one call after another.
FileNext ==
  \/ DeleteFileCall
  \/ EditFileCall
  \/ EditPlaceholderCall
  \/ WriteFileCall

\* ------------------------------------------------------- execute_command
\* The command names of the model.
CommandNames == {"lint", "test", "list", "rm"}

\* Command strings of the configuration, character by character.
GoVet == <<"g", "o", " ", " ", "v", "e", "t", " ">>
Blank == <<" ", "\t">>
Ls == <<"l", "s">>

\* CommandSpec: the command string and its timeout.
CommandSpec(command, timeoutSeconds) == [Command |-> command, TimeoutSeconds |-> timeoutSeconds]

\* What LoadCommandsConfig returns: an error, or a CommandsConfig with its
\* Commands map.
LoadFailed == [err |-> "failed to read config file", Commands |-> <<>>]
Loaded(commands) == [err |-> Nil, Commands |-> commands]

\* The contents .agent-commands.yml may have: absent, no commands, and maps
\* with a blank command, a timeout left at zero, and a command named list.
Configs ==
  { LoadFailed,
    Loaded([n \in {} |-> CommandSpec(<<>>, 0)]),
    Loaded([n \in {"lint", "test"} |->
              IF n = "lint" THEN CommandSpec(GoVet, 1) ELSE CommandSpec(Blank, 1)]),
    Loaded([n \in {"lint", "test", "list"} |->
              IF n = "lint" THEN CommandSpec(Ls, 0) ELSE CommandSpec(Ls, 1)]) }

LoadCommandsConfig(file) == file

\* The raw payloads for execute_command.
CommandPayloads ==
  {[json |-> "malformed", name |-> ""]} \cup
  {[json |-> "object", name |-> n] : n \in CommandNames \cup {""}}

\* CommandTool.parseAndValidateInput and CommandInput.Validate.
parseCommandInput(raw) ==
  IF raw.json = "malformed" THEN [err |-> "invalid JSON input", name |-> ""]
  ELSE IF raw.name = "" THEN [err |-> "parameter \"name\" is required", name |-> ""]
  ELSE [err |-> Nil, name |-> raw.name]

\* The position of the first white space of s, Len(s) + 1 if there is none.
RECURSIVE FirstSpace(_, _)
FirstSpace(s, i) ==
  IF i > Len(s) \/ IsSpace(s[i]) THEN i ELSE FirstSpace(s, i + 1)

\* Mutant of Fields: the command string is taken as one word.
FieldsUnsplit(s) == IF s = <<>> THEN <<>> ELSE <<s>>

\* strings.Fields: the maximal runs of characters that are not white space.
RECURSIVE FieldsOf(_)
FieldsOf(s) ==
  LET t == TrimLeft(s)
  IN IF t = <<>> THEN <<>>
     ELSE <<SubSeq(t, 1, FirstSpace(t, 1) - 1)>> \o
          FieldsOf(SubSeq(t, FirstSpace(t, 1), Len(t)))

Fields(s) == FieldsOf(s)

\* getCommandNames: the keys of the map (joined in map order).
getCommandNames(config) == DOMAIN config.Commands

\* What a call returns: text, error, and the names the error lists.
CmdResult(text, err, names) == [text |-> text, err |-> err, names |-> names]

\* exec.Cmd.Wait for a process that ended: nil for exit status 0, an
\* ExitError for another status or for a process ended by the kill signal.
WaitError(p) ==
  IF p.state = "killed" THEN "command failed: signal: killed"
  ELSE IF p.status # 0 THEN "command failed: exit status 1"
  ELSE Nil

\* The name that asks for the listing of the commands.
ListRequest(name) == name = "list"

\* Execute and executeCommand up to cmd.Start: either the call returns
\* (started = FALSE, with its result) or the subprocess is started with
\* argv = parts.
BeforeStart(raw, file) ==
  LET in == parseCommandInput(raw)
      config == LoadCommandsConfig(file)
      none == [started |-> FALSE, argv |-> <<>>, name |-> in.name, config |-> config,
               loaded |-> FALSE, result |-> CmdResult("", Nil, {})]
  IN IF in.err # Nil THEN [none EXCEPT !.result = CmdResult("", in.err, {}), !.config = LoadFailed]
     ELSE IF config.err # Nil
       THEN [none EXCEPT !.result = CmdResult("", "failed to load command configuration", {})]
     ELSE IF ListRequest(in.name)
       THEN [none EXCEPT !.loaded = TRUE,
                         !.result = CmdResult("Available commands", Nil, DOMAIN config.Commands)]
     ELSE IF in.name \notin DOMAIN config.Commands
       THEN [none EXCEPT !.loaded = TRUE,
                         !.result = CmdResult("", "unknown command", getCommandNames(config))]
     ELSE IF Fields(config.Commands[in.name].Command) = <<>>
       THEN [none EXCEPT !.loaded = TRUE, !.result = CmdResult("", "empty command", {})]
     ELSE IF config.Commands[in.name].TimeoutSeconds <= 0
       THEN [none EXCEPT !.loaded = TRUE,
                         !.result = CmdResult("", "command failed: context deadline exceeded", {})]
     ELSE [none EXCEPT !.loaded = TRUE, !.started = TRUE,
                       !.argv = Fields(config.Commands[in.name].Command)]

NoProc == [state |-> "none", argv |-> <<>>, status |-> 0]
Idle == [pc |-> "idle", name |-> "", config |-> LoadFailed, expired |-> FALSE]
NoCmdRet == [returned |-> FALSE, name |-> "", raw |-> <<>>, loaded |-> FALSE, config |-> LoadFailed,
             launched |-> <<>>, expired |-> FALSE, result |-> CmdResult("", Nil, {})]

CmdInit ==
  /\ cfgFile = LoadFailed
  /\ cmd = Idle
  /\ proc = NoProc
  /\ cmdRet = NoCmdRet

\* The project's configuration file is rewritten.
RewriteConfig ==
  /\ \E c \in Configs \ {cfgFile} : cfgFile' = c
  /\ UNCHANGED <<cmd, proc, cmdRet, otherThanCmd>>

\* Execute is called: it returns at once, or starts the subprocess and waits
\* in CombinedOutput.
ExecuteCommandStart ==
  /\ cmd.pc = "idle"
  /\ \E raw \in CommandPayloads :
       LET b == BeforeStart(raw, cfgFile)
       IN IF b.started
          THEN /\ cmd' = [pc |-> "waiting", name |-> b.name, config |-> b.config,
                          expired |-> FALSE]
               /\ proc' = [state |-> "running", argv |-> b.argv, status |-> 0]
               /\ cmdRet' = NoCmdRet
          ELSE /\ cmd' = Idle
               /\ proc' = NoProc
               /\ cmdRet' = [returned |-> TRUE, name |-> b.name, raw |-> raw,
                             loaded |-> b.loaded, config |-> b.config,
                             launched |-> <<>>, expired |-> FALSE, result |-> b.result]
  /\ UNCHANGED <<cfgFile, otherThanCmd>>

\* The subprocess ends on its own, with exit status 0 or 1.
ProcessExits ==
  /\ proc.state = "running"
  /\ \E st \in {0, 1} : proc' = [proc EXCEPT !.state = "exited", !.status = st]
  /\ UNCHANGED <<cfgFile, cmd, cmdRet, otherThanCmd>>

\* Mutant of KillOnExpiry: the command is not bound to the context.
LeftRunning(p) == p

\* exec.CommandContext: when the context is done the process is killed.
KillOnExpiry(p) == [p EXCEPT !.state = "killed"]

\* The timeout of context.WithTimeout expires while the subprocess runs.
TimeoutExpires ==
  /\ cmd.pc = "waiting" /\ ~cmd.expired
  /\ proc.state = "running"
  /\ cmd' = [cmd EXCEPT !.expired = TRUE]
  /\ proc' = KillOnExpiry(proc)
  /\ UNCHANGED <<cfgFile, cmdRet, otherThanCmd>>

\* CombinedOutput returns once the subprocess has ended, and executeCommand
\* returns its output and error.
CombinedOutputReturns ==
  /\ cmd.pc = "waiting"
  /\ proc.state \in {"exited", "killed"}
  /\ cmdRet' = [returned |-> TRUE, name |-> cmd.name, raw |-> [json |-> "object", name |-> cmd.name],
                loaded |-> TRUE, config |-> cmd.config,
                launched |-> proc.argv, expired |-> cmd.expired,
                result |-> CmdResult("output", WaitError(proc), {})]
  /\ cmd' = Idle
  /\ UNCHANGED <<cfgFile, proc, otherThanCmd>>

CmdNext ==
  \/ RewriteConfig
  \/ ExecuteCommandStart
  \/ ProcessExits
  \/ TimeoutExpires
  \/ CombinedOutputReturns

\* The configuration the call in progress loaded, or the last call did.
LoadedConfig == IF cmd.pc = "waiting" THEN cmd.config ELSE cmdRet.config
CalledName == IF cmd.pc = "waiting" THEN cmd.name ELSE cmdRet.name

\* A subprocess launched by the current or the last call.
Launched == proc.state # "none"

\* No character of a word is white space and no word is empty.
IsWord(w) == w # <<>> /\ \A i \in 1..Len(w) : ~IsSpace(w[i])

\* The characters of the words of argv, in order.
RECURSIVE Flatten(_)
Flatten(ws) == IF ws = <<>> THEN <<>> ELSE Head(ws) \o Flatten(Tail(ws))

\* The characters of s that are not white space, in order.
RECURSIVE NonSpace(_)
NonSpace(s) ==
  IF s = <<>> THEN <<>>
  ELSE IF IsSpace(Head(s)) THEN NonSpace(Tail(s)) ELSE <<Head(s)>> \o NonSpace(Tail(s))

\* (part of C16 and of its amended statement) a launched subprocess belongs
\* to a key of the map loaded in that call, and its argv is that entry's
\* command string split on white space.
LaunchedOnlyFromConfig ==
  Launched =>
    /\ LoadedConfig.err = Nil
    /\ CalledName \in DOMAIN LoadedConfig.Commands
    /\ proc.argv = Fields(LoadedConfig.Commands[CalledName].Command)
    /\ \A i \in 1..Len(proc.argv) : IsWord(proc.argv[i])
    /\ Flatten(proc.argv) = NonSpace(LoadedConfig.Commands[CalledName].Command)

\* The last call returned for a name that is no key of the loaded map.
ReturnedForOtherName ==
  /\ cmd.pc = "idle" /\ cmdRet.returned
  /\ cmdRet.name \notin DOMAIN cmdRet.config.Commands

\* C16 (as claimed): a subprocess is launched only for a key of the map
\* loaded in that call, with argv the entry's command split on white space;
\* for any other name no process is started and the error lists the
\* available command names.
C16_OnlyConfiguredCommandsRun ==
  /\ LaunchedOnlyFromConfig
  /\ ReturnedForOtherName =>
       /\ ~Launched
       /\ cmdRet.result.err # Nil
       /\ cmdRet.result.names = DOMAIN cmdRet.config.Commands

\* C16 (amended): as above, but the error that lists the available names is
\* returned when the payload decodes, the name is not empty and not "list"
\* and the configuration loads; "list" starts no process and returns the
\* listing with no error, also when list is a key of the map; an
\* undecodable payload, an empty name or a configuration that does not load
\* give another error, and no process.
C16_OnlyConfiguredCommandsRunOrListed ==
  /\ LaunchedOnlyFromConfig
  /\ (cmd.pc = "idle" /\ cmdRet.returned) =>
       /\ (cmdRet.raw.json = "malformed" \/ cmdRet.raw.name = "" \/ ~cmdRet.loaded) =>
            (~Launched /\ cmdRet.result.err # Nil)
       /\ (cmdRet.loaded /\ cmdRet.name = "list") =>
            /\ ~Launched
            /\ cmdRet.result.err = Nil
            /\ cmdRet.result.names = DOMAIN cmdRet.config.Commands
       /\ (cmdRet.loaded /\ cmdRet.name # "list" /\ ReturnedForOtherName) =>
            /\ ~Launched
            /\ cmdRet.result.err = "unknown command"
            /\ cmdRet.result.names = DOMAIN cmdRet.config.Commands

\* A subprocess launched from a command string with repeated and trailing
\* white space, after the file was rewritten during the call.
C16_Witness ==
  /\ Launched /\ cmd.pc = "waiting"
  /\ cmd.name = "lint"
  /\ proc.argv = << <<"g", "o">>, <<"v", "e", "t">> >>
  /\ cfgFile # cmd.config

\* The error of a call whose command ended with a non-zero exit status.
NormalExitError == WaitError([state |-> "exited", argv |-> <<>>, status |-> 1])

\* C17: when the timeout of a started command expired while it was running,
\* the call returns an error, the error is not the one of a normal non-zero
\* exit, and the subprocess is not running when (and after) the call returns.
C17_TimeoutKillsAndIsTold ==
  (cmd.pc = "idle" /\ cmdRet.returned /\ cmdRet.expired) =>
    /\ cmdRet.result.err # Nil
    /\ cmdRet.result.err # NormalExitError
    /\ proc.state # "running"

\* A call that returned after its timeout expired.
C17_Witness ==
  /\ cmd.pc = "idle" /\ cmdRet.returned /\ cmdRet.expired
  /\ cmdRet.launched # <<>>
  /\ proc.state = "killed"

\* C29 (as claimed): every command of .agent-commands.yml can be run by its
\* name: when the last call named a key of the map loaded in that call, the
\* key list included, whose entry has a command and a timeout, that entry's
\* command was started.
C29_EveryConfiguredCommandRuns ==
  ( /\ cmd.pc = "idle" /\ cmdRet.returned
    /\ cmdRet.raw.json = "object"
    /\ cmdRet.config.err = Nil
    /\ cmdRet.raw.name \in DOMAIN cmdRet.config.Commands
    /\ Fields(cmdRet.config.Commands[cmdRet.raw.name].Command) # <<>>
    /\ cmdRet.config.Commands[cmdRet.raw.name].TimeoutSeconds > 0 )
  => cmdRet.launched = Fields(cmdRet.config.Commands[cmdRet.raw.name].Command)

\* -------------------------------------------------------- GenerateSchema
\* A struct field with its tags: the json name, omitempty, jsonschema:"required"
\* and the jsonschema_description.
Field(name, type, omitempty, required, description) ==
  [json |-> name, type |-> type, omitempty |-> omitempty, required |-> required,
   description |-> description]

\* The input structs of the tools, by name.
InputStructs ==
  [ DeleteFileInput |-> << Field("path", "string", FALSE, TRUE, "File path to delete") >>,
    GlobSearchInput |-> << Field("pattern", "string", FALSE, TRUE, "Glob pattern to search for"),
                           Field("path", "string", TRUE, FALSE, "Base directory to search in") >>,
    ReadFileInput   |-> << Field("path", "string", FALSE, TRUE, "The relative path of a file"),
                           Field("offset", "integer", TRUE, FALSE, "Starting line number"),
                           Field("limit", "integer", TRUE, FALSE, "Maximum number of lines") >>,
    CommandInput    |-> << Field("name", "string", FALSE, TRUE, "Name of the command") >>,
    EditFileInput   |-> << Field("path", "string", FALSE, FALSE, "The path to the file"),
                           Field("old_str", "string", FALSE, FALSE, "Text to search for"),
                           Field("new_str", "string", FALSE, FALSE, "Text to replace old_str with") >>,
    WriteFileInput  |-> << Field("path", "string", FALSE, TRUE, "File path to write content to"),
                           Field("content", "string", FALSE, TRUE, "Text content to write") >>,
    ListFilesInput  |-> << Field("path", "string", TRUE, FALSE, "Optional relative path") >>,
    CreateFileInput |-> << Field("path", "string", FALSE, FALSE, "File path for the new empty file") >> ]

StructNames == DOMAIN InputStructs

\* The field of struct T with json name n.
FieldNamed(T, n) ==
  LET fs == InputStructs[T]
  IN fs[CHOOSE i \in 1..Len(fs) : fs[i].json = n]

FieldNames(T) == {InputStructs[T][i].json : i \in 1..Len(InputStructs[T])}

\* reflector.Reflect(v): one property per field, with its type and
\* description, and the required list: the fields tagged required and, by
\* the reflector's default, those not marked omitempty.
Reflect(T) ==
  [ Properties |-> [n \in FieldNames(T) |->
                      [type |-> FieldNamed(T, n).type,
                       description |-> FieldNamed(T, n).description]],
    Required |-> {n \in FieldNames(T) :
                    FieldNamed(T, n).required \/ ~FieldNamed(T, n).omitempty} ]

\* GenerateSchema[T]: the ToolInputSchemaParam is built from the Properties
\* of the reflected schema alone.
GenerateSchema(T) == [Properties |-> Reflect(T).Properties, Required |-> {}]

NoSchema == [Properties |-> <<>>, Required |-> {"no schema"}]

SchemaInit == advertised = [T \in StructNames |-> NoSchema]

\* A tool's Definition() is built: GenerateSchema for its input struct.
GenerateSchemaFor ==
  /\ \E T \in StructNames : advertised' = [advertised EXCEPT ![T] = GenerateSchema(T)]
  /\ UNCHANGED otherThanSchema

SchemaNext ==
  \/ GenerateSchemaFor

\* C18 (as claimed): the schema of every input struct lists every declared
\* field with its description and marks as required every field tagged
\* jsonschema:"required".
C18_SchemaKeepsFieldsAndRequired ==
  \A T \in StructNames :
    advertised[T] # NoSchema =>
      /\ DOMAIN advertised[T].Properties = FieldNames(T)
      /\ \A n \in FieldNames(T) :
           /\ advertised[T].Properties[n].description = FieldNamed(T, n).description
           /\ FieldNamed(T, n).required => n \in advertised[T].Required

\* -------------------------------------------------------------- read_file
\* The width of int, scaled down: values are IntBits-bit two's complement.
IntBits == 4
MinInt == -(2 ^ (IntBits - 1))
MaxInt == 2 ^ (IntBits - 1) - 1

\* Integer arithmetic of the machine: the result wraps around.
Wrap(x) == ((x - MinInt) % (2 ^ IntBits)) + MinInt

\* Longest file read.
MaxFileLen == 3

\* The characters of the files read.
NL == "\n"
ReadAlphabet == {"a", "b", NL}

\* The contents the file may have.
ReadContents == UNION {[1..k -> ReadAlphabet] : k \in 0..MaxFileLen}

\* Offset and Limit are *int: nil, or any int.
NilInt == [set |-> FALSE, v |-> 0]
OptInts == {NilInt} \cup {[set |-> TRUE, v |-> n] : n \in MinInt..MaxInt}

\* The raw payloads for read_file; the path is the file's, a missing file's, or empty.
ReadPayloads ==
  {[json |-> "malformed", path |-> "", offset |-> NilInt, limit |-> NilInt]} \cup
  {[json |-> "object", path |-> p, offset |-> NilInt, limit |-> NilInt] : p \in {"", "g"}} \cup
  {[json |-> "object", path |-> "f", offset |-> o, limit |-> l] : o \in OptInts, l \in OptInts}

minLineNumber == 1
minLimitValue == 1

\* ReadFileTool.parseAndValidateInput and ReadFileInput.Validate.
parseReadInput(raw) ==
  IF raw.json = "malformed" THEN "invalid JSON input"
  ELSE IF raw.path = "" THEN "parameter \"path\" is required"
  ELSE IF raw.offset.set /\ raw.offset.v < minLineNumber THEN "offset must be >= 1"
  ELSE IF raw.limit.set /\ raw.limit.v < minLimitValue THEN "limit must be >= 1"
  ELSE Nil

\* The position of the first newline of s from i on, Len(s) + 1 if there is none.
RECURSIVE FirstNL(_, _)
FirstNL(s, i) == IF i > Len(s) \/ s[i] = NL THEN i ELSE FirstNL(s, i + 1)

\* The tokens of bufio.Scanner with ScanLines: the text before each newline,
\* and a last line without newline if it is not empty.
RECURSIVE ScanLines(_)
ScanLines(s) ==
  IF s = <<>> THEN <<>>
  ELSE LET n == FirstNL(s, 1)
       IN <<SubSeq(s, 1, n - 1)>> \o ScanLines(SubSeq(s, n + 1, Len(s)))

\* splitLines: the scanner's lines (the files of the model are shorter than
\* the scanner's buffer, so the scan does not stop early).
splitLines(content) ==
  LET lines == ScanLines(content)
  IN IF Len(lines) = 0 /\ content # <<>> THEN <<content>> ELSE lines

\* strings.Join(lines, "\n").
RECURSIVE Join(_)
Join(lines) ==
  IF lines = <<>> THEN <<>>
  ELSE IF Len(lines) = 1 THEN lines[1]
  ELSE lines[1] \o <<NL>> \o Join(Tail(lines))

\* lineRange.calculateRange, in machine integers.
calculateRange(totalLines, offset, limit) ==
  LET start == IF offset.set THEN Wrap(offset.v - 1) ELSE 0
      requestedEnd == Wrap(start + limit.v)
      end == IF limit.set /\ requestedEnd < totalLines THEN requestedEnd ELSE totalLines
  IN IF offset.set /\ start >= totalLines
     THEN [err |-> "offset exceeds file length", start |-> start, end |-> totalLines]
     ELSE [err |-> Nil, start |-> start, end |-> end]

\* What read_file returns: text and error, or a panic of the process.
ReadResult(text, err, panicked) == [text |-> text, err |-> err, panicked |-> panicked]

\* extractLines: lines[lr.start:lr.end] panics when the bounds are not
\* 0 <= start <= end <= len(lines).
extractLines(content, offset, limit) ==
  LET lines == splitLines(content)
      lr == calculateRange(Len(lines), offset, limit)
  IN IF lr.err # Nil THEN ReadResult(<<>>, lr.err, FALSE)
     ELSE IF lr.start < 0 \/ lr.end < lr.start \/ lr.end > Len(lines)
       THEN ReadResult(<<>>, "panic: slice bounds out of range", TRUE)
     ELSE ReadResult(Join(SubSeq(lines, lr.start + 1, lr.end)), Nil, FALSE)

\* ReadFileTool.Execute; file is the content of path "f", every other path is missing.
ReadFileExecute(raw, file) ==
  IF parseReadInput(raw) # Nil THEN ReadResult(<<>>, parseReadInput(raw), FALSE)
  ELSE IF raw.path # "f" THEN ReadResult(<<>>, "open: no such file or directory", FALSE)
  ELSE IF ~raw.offset.set /\ ~raw.limit.set THEN ReadResult(file, Nil, FALSE)
  ELSE extractLines(file, raw.offset, raw.limit)

Unwritten == <<"unwritten">>
NoRead == [called |-> FALSE, raw |-> <<>>, out |-> ReadResult(<<>>, Nil, FALSE)]

ReadInit ==
  /\ readFile = Unwritten
  /\ readCall = NoRead

\* The file is saved with some content.
SaveFile ==
  /\ readFile = Unwritten
  /\ \E c \in ReadContents : readFile' = c
  /\ UNCHANGED <<readCall, otherThanRead>>

\* One call of read_file on the saved file.
ReadFileCall ==
  /\ readFile # Unwritten
  /\ ~readCall.called
  /\ \E raw \in ReadPayloads :
       readCall' = [called |-> TRUE, raw |-> raw, out |-> ReadFileExecute(raw, readFile)]
  /\ UNCHANGED <<readFile, otherThanRead>>

ReadNext ==
  \/ SaveFile
  \/ ReadFileCall

\* The smaller of two numbers.
Min(a, b) == IF a < b THEN a ELSE b

\* C19 (as claimed): on a file of T lines, read_file with offset o and limit
\* l returns lines o .. min(o+l-1, T) joined by newlines (offset alone:
\* o..T, limit alone: 1..min(l, T)); o > T is an error; o < 1 and l < 1 are
\* rejected; with neither parameter the content is returned verbatim.
C19_ReadReturnsRequestedLines ==
  (readCall.called /\ readCall.raw.json = "object" /\ readCall.raw.path = "f") =>
    LET o == readCall.raw.offset
        l == readCall.raw.limit
        lines == splitLines(readFile)
        T == Len(lines)
        first == IF o.set THEN o.v ELSE 1
        last == IF l.set THEN Min(first + l.v - 1, T) ELSE T
        out == readCall.out
    IN /\ ~out.panicked
       /\ IF ~o.set /\ ~l.set THEN out.err = Nil /\ out.text = readFile
          ELSE IF (o.set /\ o.v < 1) \/ (l.set /\ l.v < 1) THEN out.err # Nil
          ELSE IF o.set /\ o.v > T THEN out.err # Nil
          ELSE out.err = Nil /\ out.text = Join(SubSeq(lines, first, last))

\* C27 (as claimed): for every file of T lines and every offset >= 1 and
\* limit >= 1 that pass Validate, values near the largest int included,
\* calculateRange returns an error or a range with 0 <= start <= end <= T,
\* and extractLines does not slice out of range.
C27_RangeStaysInBounds ==
  ( /\ readCall.called /\ readCall.raw.json = "object" /\ readCall.raw.path = "f"
    /\ readCall.raw.offset.set /\ readCall.raw.offset.v >= minLineNumber
    /\ readCall.raw.limit.set /\ readCall.raw.limit.v >= minLimitValue ) =>
    LET T == Len(splitLines(readFile))
        lr == calculateRange(T, readCall.raw.offset, readCall.raw.limit)
    IN /\ lr.err # Nil \/ (0 <= lr.start /\ lr.start <= lr.end /\ lr.end <= T)
       /\ ~readCall.out.panicked

\* -------------------------------------- file creation on a directory tree
\* The two callers that may run a tool at the same time.
Callers == {1, 2}

\* The entries of the tree: a top-level file, a directory and a file in it.
Entries == {"f", "n", "n/g"}

\* The paths the calls name; "n/" is the directory's name with a trailing slash.
TreePaths == {"", "f", "n", "n/g", "n/"}

\* filepath.Dir(path).
DirOf(path) == IF path \in {"n/g", "n/"} THEN "n" ELSE "."

\* The entry a path names.
EntryOf(path) == IF path = "n/" THEN "n" ELSE path

\* The filesystems the callers may start from.
StartTrees ==
  { [e \in Entries |-> NoFile],
    [e \in Entries |-> IF e = "f" THEN <<"a">> ELSE NoFile],
    [e \in Entries |-> IF e = "n" THEN Dir ELSE IF e = "f" THEN <<>> ELSE <<"a">>],
    [e \in Entries |-> IF e = "n" THEN <<"a">> ELSE NoFile] }

\* os.MkdirAll(dir): nothing for an existing directory, the directory is
\* made if nothing is there, an error if a regular file is in the way.
MkdirAll(dir, fs) ==
  IF fs[dir] = Dir THEN [err |-> Nil, fs |-> fs, made |-> {}]
  ELSE IF fs[dir] = NoFile THEN [err |-> Nil, fs |-> [fs EXCEPT ![dir] = Dir], made |-> {dir}]
  ELSE [err |-> "mkdir: not a directory", fs |-> fs, made |-> {}]

\* The parent directory of path can hold an entry.
ParentIsDir(path, fs) == DirOf(path) = "." \/ fs[DirOf(path)] = Dir

\* Mutant of OpenExcl: O_TRUNC in place of O_EXCL, an existing file is emptied.
OpenTrunc(path, fs) ==
  IF path = "n/" \/ ~ParentIsDir(path, fs) \/ fs[EntryOf(path)] = Dir
  THEN [err |-> "open failed", exists |-> FALSE, fs |-> fs, made |-> {}]
  ELSE [err |-> Nil, exists |-> FALSE, fs |-> [fs EXCEPT ![path] = <<>>], made |-> {path}]

\* os.OpenFile(path, O_CREATE|O_EXCL|O_WRONLY): one atomic step that fails
\* if anything is at path and creates the empty file otherwise.
OpenExcl(path, fs) ==
  IF path = "n/" \/ ~ParentIsDir(path, fs)
  THEN [err |-> "open failed", exists |-> FALSE, fs |-> fs, made |-> {}]
  ELSE IF fs[path] # NoFile
  THEN [err |-> "file exists", exists |-> TRUE, fs |-> fs, made |-> {}]
  ELSE [err |-> Nil, exists |-> FALSE, fs |-> [fs EXCEPT ![path] = <<>>], made |-> {path}]

\* os.WriteFile(path, content): the file is created or truncated and written.
WriteFile(path, content, fs) ==
  IF path = "n/" \/ ~ParentIsDir(path, fs) \/ fs[EntryOf(path)] = Dir
  THEN [err |-> "open failed", fs |-> fs, made |-> {}]
  ELSE [err |-> Nil, fs |-> [fs EXCEPT ![path] = content], made |-> {path}]

\* The payloads of create_file, write_file and edit_file on the tree.
CreatePayloads ==
  {[json |-> "malformed", path |-> ""]} \cup {[json |-> "object", path |-> p] : p \in TreePaths}

TreeWritePayloads ==
  {[json |-> "malformed", path |-> "", content |-> <<>>]} \cup
  {[json |-> "object", path |-> p, content |-> c] : p \in TreePaths, c \in {<<>>, <<"b">>}}

TreeEditPayloads ==
  {[json |-> "malformed", path |-> "", old_str |-> <<>>, new_str |-> <<>>]} \cup
  {[json |-> "object", path |-> p, old_str |-> o, new_str |-> n] :
     p \in TreePaths, o \in {<<>>, <<"NEW_FILE">>, <<"new_file">>, <<"a">>},
     n \in {<<"NEW_FILE">>, <<"b">>}}

\* A caller that has not called yet.
NotCalled == [pc |-> "idle", tool |-> "none", raw |-> <<>>, made |-> {}, seen |-> NoFile,
              after |-> NoFile, text |-> "", err |-> Nil]

TreeInit ==
  /\ tree = [e \in Entries |-> NoFile]
  /\ treeStart = <<"unprepared">>
  /\ callers = [c \in Callers |-> NotCalled]

\* The filesystem the callers find.
Prepare ==
  /\ treeStart = <<"unprepared">>
  /\ \E t \in StartTrees : tree' = t /\ treeStart' = t
  /\ UNCHANGED <<callers, otherThanTree>>

\* The call of caller c has returned text and err.
Returned(c, text, err) == [callers[c] EXCEPT !.pc = "returned", !.text = text, !.err = err]

\* The first part of Execute for the three tools: the payload is decoded
\* and checked, then MkdirAll makes the parent directory if the path has one.
\* mode is what remains to be done.
BeginCall(c, tool, raw, decodeErr, checkErr, mode, needsDir) ==
  LET call == [NotCalled EXCEPT !.tool = tool, !.raw = raw]
      m == MkdirAll(DirOf(raw.path), tree)
  IN IF decodeErr # Nil
       THEN /\ callers' = [callers EXCEPT ![c] = [call EXCEPT !.pc = "returned", !.err = decodeErr]]
            /\ tree' = tree
     ELSE IF checkErr # Nil
       THEN /\ callers' = [callers EXCEPT ![c] = [call EXCEPT !.pc = "returned", !.err = checkErr]]
            /\ tree' = tree
     ELSE IF needsDir /\ DirOf(raw.path) # "."
       THEN IF m.err # Nil
            THEN /\ callers' = [callers EXCEPT ![c] =
                                  [call EXCEPT !.pc = "returned", !.err = "failed to create directory"]]
                 /\ tree' = tree
            ELSE /\ callers' = [callers EXCEPT ![c] = [call EXCEPT !.pc = mode, !.made = m.made]]
                 /\ tree' = m.fs
     ELSE /\ callers' = [callers EXCEPT ![c] = [call EXCEPT !.pc = mode]]
          /\ tree' = tree

MalformedErr(raw) == IF raw.json = "malformed" THEN "invalid character" ELSE Nil

\* CreateFileTool.Execute up to MkdirAll.
CreateFileBegin(c) ==
  /\ treeStart # <<"unprepared">> /\ callers[c].pc = "idle"
  /\ \E raw \in CreatePayloads :
       BeginCall(c, "create_file", raw, MalformedErr(raw),
                 IF raw.path = "" THEN "path cannot be empty" ELSE Nil, "open", TRUE)
  /\ UNCHANGED <<treeStart, otherThanTree>>

\* CreateFileTool.Execute from os.OpenFile on.
CreateFileOpen(c) ==
  /\ callers[c].pc = "open" /\ callers[c].tool = "create_file"
  /\ LET path == callers[c].raw.path
         o == OpenExcl(path, tree)
         done == [callers[c] EXCEPT !.pc = "returned", !.made = @ \cup o.made,
                                    !.seen = tree[EntryOf(path)], !.after = o.fs[EntryOf(path)]]
     IN /\ tree' = o.fs
        /\ callers' = [callers EXCEPT ![c] =
             IF o.err = Nil THEN [done EXCEPT !.text = "Successfully created empty file"]
             ELSE IF o.exists THEN [done EXCEPT !.err = "file already exists"]
             ELSE [done EXCEPT !.err = "failed to create file"]]
  /\ UNCHANGED <<treeStart, otherThanTree>>

\* WriteFileTool.Execute up to MkdirAll.
WriteFileBegin(c) ==
  /\ treeStart # <<"unprepared">> /\ callers[c].pc = "idle"
  /\ \E raw \in TreeWritePayloads :
       BeginCall(c, "write_file", raw, MalformedErr(raw),
                 IF raw.path = "" THEN "path parameter is required"
                 ELSE IF raw.content = <<>> THEN "content parameter is required and cannot be empty"
                 ELSE Nil,
                 "write", TRUE)
  /\ UNCHANGED <<treeStart, otherThanTree>>

\* WriteFileTool.Execute from os.WriteFile on.
WriteFileWrite(c) ==
  /\ callers[c].pc = "write" /\ callers[c].tool = "write_file"
  /\ LET path == callers[c].raw.path
         w == WriteFile(path, callers[c].raw.content, tree)
         done == [callers[c] EXCEPT !.pc = "returned", !.made = @ \cup w.made,
                                    !.seen = tree[EntryOf(path)], !.after = w.fs[EntryOf(path)]]
     IN /\ tree' = w.fs
        /\ callers' = [callers EXCEPT ![c] =
             IF w.err = Nil THEN [done EXCEPT !.text = "Successfully wrote content to file"]
             ELSE [done EXCEPT !.err = "failed to write file"]]
  /\ UNCHANGED <<treeStart, otherThanTree>>

\* EditFileTool.Execute of the placeholder variant up to MkdirAll (creation
\* mode) or up to os.ReadFile (edit mode).
EditFileBegin(c) ==
  /\ treeStart # <<"unprepared">> /\ callers[c].pc = "idle"
  /\ \E raw \in TreeEditPayloads :
       BeginCall(c, "edit_file", raw, MalformedErr(raw),
                 IF raw.path = "" THEN "path cannot be empty"
                 ELSE IF ~isFileCreationRequest(raw.old_str) /\ raw.old_str = raw.new_str
                   THEN "old_str and new_str must be different"
                 ELSE Nil,
                 IF isFileCreationRequest(raw.old_str) THEN "create" ELSE "edit",
                 isFileCreationRequest(raw.old_str))
  /\ UNCHANGED <<treeStart, otherThanTree>>

\* createNewFile from os.WriteFile on.
EditFileCreate(c) ==
  /\ callers[c].pc = "create" /\ callers[c].tool = "edit_file"
  /\ LET path == callers[c].raw.path
         w == WriteFile(path, callers[c].raw.new_str, tree)
         done == [callers[c] EXCEPT !.pc = "returned", !.made = @ \cup w.made,
                                    !.seen = tree[EntryOf(path)], !.after = w.fs[EntryOf(path)]]
     IN /\ tree' = w.fs
        /\ callers' = [callers EXCEPT ![c] =
             IF w.err = Nil THEN [done EXCEPT !.text = "Successfully created file"]
             ELSE [done EXCEPT !.err = "failed to create file"]]
  /\ UNCHANGED <<treeStart, otherThanTree>>

\* EditFileTool.Execute in edit mode: the file is read, every occurrence of
\* old_str is replaced and the file is written.
EditFileReplace(c) ==
  /\ callers[c].pc = "edit" /\ callers[c].tool = "edit_file"
  /\ LET raw == callers[c].raw
         e == EntryOf(raw.path)
         readable == raw.path # "n/" /\ ParentIsDir(raw.path, tree) /\ tree[e] \notin {NoFile, Dir}
         newContent == ReplaceAll(tree[e], raw.old_str, raw.new_str)
         done == [callers[c] EXCEPT !.pc = "returned", !.seen = tree[e], !.after = tree[e]]
     IN IF ~readable
        THEN /\ tree' = tree
             /\ callers' = [callers EXCEPT ![c] =
                  [done EXCEPT !.err = IF raw.path # "n/" /\ tree[e] = NoFile
                                       THEN "file does not exist" ELSE "read failed"]]
        ELSE IF newContent = tree[e]
        THEN /\ tree' = tree
             /\ callers' = [callers EXCEPT ![c] = [done EXCEPT !.err = "old_str not found in file"]]
        ELSE /\ tree' = [tree EXCEPT ![e] = newContent]
             /\ callers' = [callers EXCEPT ![c] =
                  [done EXCEPT !.text = "OK", !.made = {e}, !.after = newContent]]
  /\ UNCHANGED <<treeStart, otherThanTree>>

TreeNext ==
  \/ Prepare
  \/ \E c \in Callers : CreateFileBegin(c)
  \/ \E c \in Callers : CreateFileOpen(c)
  \/ \E c \in Callers : WriteFileBegin(c)
  \/ \E c \in Callers : WriteFileWrite(c)
  \/ \E c \in Callers : EditFileBegin(c)
  \/ \E c \in Callers : EditFileCreate(c)
  \/ \E c \in Callers : EditFileReplace(c)

\* Caller c's create_file call went as far as os.OpenFile and returned.
CreateTried(c) ==
  /\ callers[c].pc = "returned" /\ callers[c].tool = "create_file"
  /\ callers[c].err \notin {"invalid character", "path cannot be empty", "failed to create directory"}

\* Caller c's call returned without error.
Succeeded(c) == callers[c].pc = "returned" /\ callers[c].err = Nil

\* C22: create_file never changes an existing file: when something is at
\* the path it returns the already-exists error and has made nothing; when
\* it succeeds the file was absent and is now empty; and of two create_file
\* calls racing on the same path where nothing was, exactly one succeeds.
C22_CreateFailsIfFileExists ==
  /\ \A c \in Callers :
       CreateTried(c) =>
         /\ (callers[c].seen # NoFile /\ callers[c].raw.path # "n/") =>
              /\ callers[c].err = "file already exists"
              /\ callers[c].after = callers[c].seen
              /\ callers[c].raw.path \notin callers[c].made
         /\ callers[c].err = Nil =>
              (callers[c].seen = NoFile /\ callers[c].after = <<>>)
  /\ \A c1, c2 \in Callers :
       ( /\ c1 # c2 /\ CreateTried(c1) /\ CreateTried(c2)
         /\ callers[c1].raw.path = callers[c2].raw.path
         /\ callers[c1].raw.path \in {"f", "n/g"}
         /\ treeStart[callers[c1].raw.path] = NoFile )
       => /\ Succeeded(c1) # Succeeded(c2)
          /\ tree[callers[c1].raw.path] = <<>>

\* Two create_file calls raced on a path in a directory that did not exist:
\* one made the file, the other was told it exists.
C22_Witness ==
  /\ CreateTried(1) /\ CreateTried(2)
  /\ callers[1].raw.path = "n/g" /\ callers[2].raw.path = "n/g"
  /\ treeStart["n"] = NoFile
  /\ Succeeded(2) /\ callers[1].err = "file already exists"

\* Caller c's edit_file call had a decodable payload with a path and returned.
EditTried(c) ==
  /\ callers[c].pc = "returned" /\ callers[c].tool = "edit_file"
  /\ callers[c].raw.json = "object" /\ callers[c].raw.path # ""

C28_WriteAllOrNothing ==
  \A c \in Callers :
    (callers[c].pc = "returned" /\ callers[c].tool = "write_file") =>
      /\ callers[c].err # Nil => callers[c].made = {}
      /\ callers[c].err = Nil =>
           /\ callers[c].after = callers[c].raw.content
           /\ ParentIsDir(callers[c].raw.path, tree)

\* ---------------------------------------------------------- specifications
Init == RegInit /\ ConcInit /\ EngInit /\ FileInit /\ CmdInit /\ SchemaInit /\ ReadInit /\ TreeInit

\* The registry as one caller at a time sees it.
Next == RegNext
Spec == Init /\ [][Next]_vars

\* The registry under concurrent initializers and readers.
SpecConc == Init /\ [][ConcNext]_vars

\* One session of the conversation engine, from main.
SpecEngine == Init /\ [][EngNext]_vars

\* The file tools called directly, one call at a time.
SpecFile == Init /\ [][FileNext]_vars

\* execute_command, its configuration file and its subprocess.
SpecCommand == Init /\ [][CmdNext]_vars

\* The tools' definitions being built.
SpecSchema == Init /\ [][SchemaNext]_vars

\* read_file on one file.
SpecRead == Init /\ [][ReadNext]_vars

\* The file-creating tools called by concurrent callers.
SpecTree == Init /\ [][TreeNext]_vars
====
